---- MODULE Spec2Model ----
(***************************************************************************)
(* State-machine model of topside's PlumbingEngine                         *)
(* (src/topside/plumbing/plumbing_engine.py).                              *)
(*                                                                         *)
(* Numbers (pressures, flow coefficients, times) are exact rationals       *)
(* <<n, d>> with d > 0 in lowest terms, so equal numbers are equal values. *)
(* Python strings that the code takes apart (component names, edge keys)   *)
(* are sequences of one-character strings; node ids and state ids, which   *)
(* the code only compares, are TLA+ strings.                               *)
(***************************************************************************)
EXTENDS Integers, Sequences, FiniteSets, TLC

(***************************************************************************)
(* Rational arithmetic                                                     *)
(***************************************************************************)
Abs(x) == IF x < 0 THEN -x ELSE x

RECURSIVE GCD(_, _)
GCD(a, b) == IF b = 0 THEN a ELSE GCD(b, a % b)

Norm(n, d) ==
    LET g == GCD(Abs(n), d)
    IN  IF n = 0 THEN <<0, 1>>
        ELSE IF n < 0 THEN <<-(Abs(n) \div g), d \div g>>
        ELSE <<n \div g, d \div g>>

R(n) == <<n, 1>>
LCM(a, b) == (a \div GCD(a, b)) * b
RAdd(a, b) == LET l == LCM(a[2], b[2])
              IN  Norm(a[1] * (l \div a[2]) + b[1] * (l \div b[2]), l)
RSub(a, b) == LET l == LCM(a[2], b[2])
              IN  Norm(a[1] * (l \div a[2]) - b[1] * (l \div b[2]), l)
RMul(a, b) == LET g1 == GCD(Abs(a[1]), b[2])
                  g2 == GCD(Abs(b[1]), a[2])
              IN  IF a[1] = 0 \/ b[1] = 0 THEN <<0, 1>>
                  ELSE Norm((a[1] \div g1) * (b[1] \div g2), (a[2] \div g2) * (b[2] \div g1))
RDiv(a, b) == IF b[1] < 0 THEN RMul(a, <<-b[2], Abs(b[1])>>)
              ELSE RMul(a, <<b[2], b[1]>>)
\* n1/d1 < n2/d2 for non-negative fractions, by comparing the integer parts
\* and then the reciprocals of the fractional parts (no products are formed)
RECURSIVE FracLt(_, _, _, _)
FracLt(n1, d1, n2, d2) ==
    IF n1 \div d1 # n2 \div d2 THEN n1 \div d1 < n2 \div d2
    ELSE IF n2 % d2 = 0 THEN FALSE
    ELSE IF n1 % d1 = 0 THEN TRUE
    ELSE FracLt(d2, n2 % d2, d1, n1 % d1)
RLt(a, b) ==
    IF a[1] < 0 /\ b[1] >= 0 THEN TRUE
    ELSE IF a[1] >= 0 /\ b[1] < 0 THEN FALSE
    ELSE IF a[1] < 0 THEN FracLt(-b[1], b[2], -a[1], a[2])
    ELSE FracLt(a[1], a[2], b[1], b[2])
RLe(a, b) == ~RLt(b, a)
RIsInt(a) == a[2] = 1
\* Python int(x): truncation toward zero
RTrunc(a) == IF a[1] < 0 THEN R(-(Abs(a[1]) \div a[2])) ELSE R(a[1] \div a[2])

(***************************************************************************)
(* Python dict and list helpers                                            *)
(***************************************************************************)
EmptyDict == [x \in {} |-> 0]
Put(f, k, v) == [x \in (DOMAIN f) \cup {k} |-> IF x = k THEN v ELSE f[x]]
Del(f, k) == [x \in (DOMAIN f) \ {k} |-> f[x]]
Values(f) == {f[x] : x \in DOMAIN f}
Range(s) == {s[i] : i \in 1..Len(s)}
InSeq(x, s) == \E i \in 1..Len(s) : s[i] = x
AppendNew(s, x) == IF InSeq(x, s) THEN s ELSE Append(s, x)

\* str.startswith and the substring test `p in s`
StartsWith(s, p) == Len(p) <= Len(s) /\ SubSeq(s, 1, Len(p)) = p
Contains(s, p) == \E i \in 0..(Len(s) - Len(p)) : SubSeq(s, i + 1, i + Len(p)) = p

(***************************************************************************)
(* plumbing_utils: constants and conversions                               *)
(***************************************************************************)
MICROS_PER_SEC == 1000000
MIN_TIME_RES_MICROS == 1
DEFAULT_RESOLUTION_SCALE == 2
DEFAULT_TIME_RESOLUTION_MICROS == 8
TEQ_MIN == 2
ATM == "atm"
\* the sentinels 'closed' and 'open', encoded as non-numbers (zero denominator)
CLOSED == <<0, 0>>
OPEN == <<1, 0>>
FC_MAX == <<1, TEQ_MIN>>

s_to_micros(s) == RMul(s, R(MICROS_PER_SEC))
micros_to_s(t) == RDiv(t, R(MICROS_PER_SEC))

teq_to_FC(teq) ==
    IF teq = CLOSED THEN R(0)
    ELSE IF teq = OPEN THEN FC_MAX
    ELSE IF RLt(teq, R(TEQ_MIN)) THEN FC_MAX
    ELSE RDiv(R(1), teq)

FC_to_teq(FC) == IF FC = R(0) THEN CLOSED ELSE RDiv(R(1), FC)

(***************************************************************************)
(* invalid_reasons: error records and add_error                            *)
(***************************************************************************)
InvalidComponentName(msg, name) ==
    [type |-> "InvalidComponentName", error_message |-> msg, component_name |-> name]
InvalidComponentNode(msg, name, node) ==
    [type |-> "InvalidComponentNode", error_message |-> msg,
     component_name |-> name, node_name |-> node]
InvalidNodePressure(msg, node) ==
    [type |-> "InvalidNodePressure", error_message |-> msg, node_name |-> node]
DuplicateError(error) == [type |-> "DuplicateError", original_error |-> error]

\* Variant of add_error that records nothing
add_error_Dropped(error, error_set) ==
    error_set

add_error(error, error_set) ==
    IF error \in error_set THEN error_set \cup {DuplicateError(error)}
    ELSE error_set \cup {error}

(***************************************************************************)
(* node: the body of a graph node                                          *)
(***************************************************************************)
instantiate_node(node) == [pressure |-> R(0), fixed |-> FALSE]

(***************************************************************************)
(* PlumbingComponent: name, component graph (edge list), per-state FC maps *)
(***************************************************************************)
NoState == "None"

IsTeqValid(teq) == teq = CLOSED \/ teq = OPEN \/ ~RLt(s_to_micros(teq), R(TEQ_MIN))

PlumbingComponent(name, states, edges) ==
    [name |-> name,
     component_graph |-> edges,
     states |-> [s \in DOMAIN states |->
                    [e \in DOMAIN states[s] |->
                        IF states[s][e] \in {CLOSED, OPEN} THEN teq_to_FC(states[s][e])
                        ELSE teq_to_FC(s_to_micros(states[s][e]))]],
     current_state |-> NoState,
     valid |-> /\ DOMAIN states # {}
               /\ \A s \in DOMAIN states :
                    /\ DOMAIN states[s] = Range(edges)
                    /\ \A e \in DOMAIN states[s] : IsTeqValid(states[s][e])]

(***************************************************************************)
(* The multigraph library (networkx.MultiDiGraph), as far as it is used.   *)
(* nodes and edges are kept in insertion order; an edge is <<u, v, key>>.  *)
(***************************************************************************)
EmptyGraph == [nodes |-> <<>>, body |-> EmptyDict, edges |-> <<>>, FC |-> EmptyDict]

add_edge(G, u, v, k) ==
    [G EXCEPT !.nodes = AppendNew(AppendNew(G.nodes, u), v),
              !.edges = AppendNew(G.edges, <<u, v, k>>)]

remove_edges_from(G, es) ==
    LET keep(e) == e \notin es
    IN  [G EXCEPT !.edges = SelectSeq(G.edges, keep),
                  !.FC = [e \in (DOMAIN G.FC) \ es |-> G.FC[e]]]

\* removing a node removes its body and every edge incident to it
remove_nodes_from(G, ns) ==
    LET keepN(n) == n \notin ns
        keepE(e) == e[1] \notin ns /\ e[2] \notin ns
        gone == {e \in Range(G.edges) : ~keepE(e)}
    IN  [nodes |-> SelectSeq(G.nodes, keepN),
         body |-> [n \in (DOMAIN G.body) \ ns |-> G.body[n]],
         edges |-> SelectSeq(G.edges, keepE),
         FC |-> [e \in (DOMAIN G.FC) \ gone |-> G.FC[e]]]

\* G.neighbors(n) of a directed graph: the successors of n
neighbors(G, n) == {e[2] : e \in {x \in Range(G.edges) : x[1] = n}}

\* set_edge_attributes(G, values, 'FC'): edges that are not in G are skipped
set_edge_attributes(G, values) ==
    LET hit == (DOMAIN values) \cap Range(G.edges)
    IN  [G EXCEPT !.FC = [e \in (DOMAIN G.FC) \cup hit |->
                             IF e \in hit THEN values[e] ELSE G.FC[e]]]

out_edges(G, n) == LET from(e) == e[1] = n IN SelectSeq(G.edges, from)
in_edges(G, n) == LET into(e) == e[2] = n IN SelectSeq(G.edges, into)

(***************************************************************************)
(* Results of a call: the engine afterwards and the exception raised       *)
(***************************************************************************)
NoExc == "none"
Ok(self) == [self |-> self, exc |-> NoExc, msg |-> ""]
Raise(self, exc, msg) == [self |-> self, exc |-> exc, msg |-> msg]

\* Statement sequencing: the result r of a call if it raised, else what the
\* rest of the body, k, makes of the engine that r left
Then(r, k(_)) == IF r.exc # NoExc THEN r ELSE k(r.self)
\* A local variable: the rest of the body, k, with the value v bound
Let(v, k(_)) == k(v)

\* Assign to a field of the component object held under component_dict[name];
\* `shared` lists the names whose object is also the one in initial_components.
SetComponent(self, name, comp) ==
    [self EXCEPT !.component_dict = Put(self.component_dict, name, comp),
                 !.initial_components =
                     IF name \in self.shared
                     THEN Put(self.initial_components, name, comp)
                     ELSE self.initial_components]

(***************************************************************************)
(* PlumbingEngine                                                          *)
(* An engine is a record `self` of the object's fields.  plumbing_graph is *)
(* the graph record above; component_dict, mapping, fixed_pressures and    *)
(* the initial_* fields are dicts (functions); component_keys is the key   *)
(* order of component_dict.                                                *)
(***************************************************************************)
IsNumber(x) == x[2] # 0

get_node_body(self, node_name) == self.plumbing_graph.body[node_name]

is_valid(self) == Cardinality(self.error_set) = 0

\* Variant of set_pressure that takes any pressure for the atmosphere node
set_pressure_AnyAtm(self, node_name, pressure, fixed) ==
    IF ~IsNumber(pressure) THEN Raise(self, "BadInputError", "must be a number")
    ELSE IF RLt(pressure, R(0)) THEN Raise(self, "BadInputError", "negative pressure")
    ELSE IF ~InSeq(node_name, self.plumbing_graph.nodes)
        THEN Raise(self, "BadInputError", "node not found in graph")
    ELSE IF node_name \notin DOMAIN self.plumbing_graph.body
        THEN Raise(self, "KeyError", "body")
    ELSE
        LET body == [pressure |-> pressure, fixed |-> fixed]
            fp1 == IF fixed THEN Put(self.fixed_pressures, node_name, pressure)
                   ELSE self.fixed_pressures
            fp2 == IF ~fixed /\ node_name \in DOMAIN fp1 THEN Del(fp1, node_name) ELSE fp1
        IN  Ok([self EXCEPT !.plumbing_graph.body = Put(@, node_name, body),
                            !.fixed_pressures = fp2])

\* PlumbingEngine.set_pressure
set_pressure(self, node_name, pressure, fixed) ==
    IF ~IsNumber(pressure) THEN Raise(self, "BadInputError", "must be a number")
    ELSE IF RLt(pressure, R(0)) THEN Raise(self, "BadInputError", "negative pressure")
    ELSE IF ~InSeq(node_name, self.plumbing_graph.nodes)
        THEN Raise(self, "BadInputError", "node not found in graph")
    ELSE IF node_name = ATM /\ pressure # R(0)
        THEN Raise(self, "BadInputError", "atm must be 0")
    ELSE IF node_name \notin DOMAIN self.plumbing_graph.body
        THEN Raise(self, "KeyError", "body")
    ELSE
        LET body == [pressure |-> pressure, fixed |-> fixed]
            fp1 == IF fixed THEN Put(self.fixed_pressures, node_name, pressure)
                   ELSE self.fixed_pressures
            fp2 == IF ~fixed /\ node_name \in DOMAIN fp1 THEN Del(fp1, node_name) ELSE fp1
        IN  Ok([self EXCEPT !.plumbing_graph.body = Put(@, node_name, body),
                            !.fixed_pressures = fp2])

\* The loop of set_component_state over the edges of the target state:
\* returns the error set and the {graph edge: FC} dict.
RECURSIVE StateEdgesLoop(_, _, _, _, _, _)
StateEdgesLoop(cedges, component, component_name, component_map, error_set, acc) ==
    IF cedges = <<>> THEN [error_set |-> error_set, state_edges_graph |-> acc]
    ELSE
        LET cedge == Head(cedges)
            cstart_node == cedge[1]
            cend_node == cedge[2]
            key == cedge[3]
            es1 == IF cstart_node \notin DOMAIN component_map
                   THEN add_error(InvalidComponentNode("node not found in mapping dict",
                                      component.name, cstart_node), error_set)
                   ELSE error_set
            es2 == IF cend_node \notin DOMAIN component_map
                   THEN add_error(InvalidComponentNode("node not found in mapping dict",
                                      component.name, cend_node), es1)
                   ELSE es1
            both_nodes_valid == cstart_node \in DOMAIN component_map
                                /\ cend_node \in DOMAIN component_map
            new_edge == <<component_map[cstart_node], component_map[cend_node],
                          component_name \o <<".">> \o key>>
            acc2 == IF both_nodes_valid
                    THEN Put(acc, new_edge, component.states[component.current_state][cedge])
                    ELSE acc
        IN  StateEdgesLoop(Tail(cedges), component, component_name, component_map, es2, acc2)

\* The keys of a state's {edge: FC} dict, in the component's edge order
StateEdgeKeys(component, state_id) ==
    LET inState(e) == e \in DOMAIN component.states[state_id]
    IN  SelectSeq(component.component_graph, inState)

\* Variant of set_component_state that addresses edges by their end nodes
\* alone: every parallel edge takes the FC meant for the component's edge
set_component_state_ByEndNodes(self, component_name, state_id) ==
    IF component_name \notin DOMAIN self.mapping
        THEN Raise(self, "BadInputError", "component not found in mapping dict")
    ELSE IF component_name \notin DOMAIN self.component_dict
        THEN Raise(self, "KeyError", "component_dict")
    ELSE IF state_id \notin DOMAIN self.component_dict[component_name].states
        THEN Raise(self, "BadInputError", "state not found in states dict")
    ELSE
        LET component_map == self.mapping[component_name]
            component == [self.component_dict[component_name]
                             EXCEPT !.current_state = state_id]
            self1 == SetComponent(self, component_name, component)
            loop == StateEdgesLoop(StateEdgeKeys(component, state_id), component,
                                   component_name, component_map, self.error_set, EmptyDict)
            values == loop.state_edges_graph
            same(e, k) == e[1] = k[1] /\ e[2] = k[2]
            hit == {e \in Range(self.plumbing_graph.edges) :
                        \E k \in DOMAIN values : same(e, k)}
        IN  Ok([self1 EXCEPT !.error_set = loop.error_set,
                             !.plumbing_graph.FC =
                                 [e \in (DOMAIN @) \cup hit |->
                                     IF e \in hit
                                     THEN values[CHOOSE k \in DOMAIN values : same(e, k)]
                                     ELSE @[e]]])

\* PlumbingEngine.set_component_state
set_component_state(self, component_name, state_id) ==
    IF component_name \notin DOMAIN self.mapping
        THEN Raise(self, "BadInputError", "component not found in mapping dict")
    ELSE IF component_name \notin DOMAIN self.component_dict
        THEN Raise(self, "KeyError", "component_dict")
    ELSE IF state_id \notin DOMAIN self.component_dict[component_name].states
        THEN Raise(self, "BadInputError", "state not found in states dict")
    ELSE
        LET component_map == self.mapping[component_name]
            component == [self.component_dict[component_name]
                             EXCEPT !.current_state = state_id]
            self1 == SetComponent(self, component_name, component)
            loop == StateEdgesLoop(StateEdgeKeys(component, state_id), component,
                                   component_name, component_map, self.error_set, EmptyDict)
        IN  Ok([self1 EXCEPT !.error_set = loop.error_set,
                             !.plumbing_graph =
                                 set_edge_attributes(@, loop.state_edges_graph)])

\* PlumbingEngine._set_time_res
RMax(S) == CHOOSE x \in S : \A y \in S : RLe(y, x)

\* Variant of set_time_res in which fully open edges shrink time_res as well
set_time_res_CountsOpen(self, component_name) ==
    LET component_states == self.component_dict[component_name].states
        fcs == UNION {Values(component_states[s]) : s \in DOMAIN component_states}
        start == teq_to_FC(RMul(self.time_res, R(DEFAULT_RESOLUTION_SCALE)))
        max_fc == RMax({start} \cup {fc \in fcs : RLt(start, fc)})
    IN  IF max_fc # R(0)
        THEN [self EXCEPT !.time_res =
                 RTrunc(RDiv(FC_to_teq(max_fc), R(DEFAULT_RESOLUTION_SCALE)))]
        ELSE self

\* Variant of set_time_res that divides the shortest teq by twice the scale
set_time_res_Coarse(self, component_name) ==
    LET component_states == self.component_dict[component_name].states
        fcs == UNION {Values(component_states[s]) : s \in DOMAIN component_states}
        start == teq_to_FC(RMul(self.time_res, R(DEFAULT_RESOLUTION_SCALE)))
        max_fc == RMax({start} \cup {fc \in fcs : fc # FC_MAX /\ RLt(start, fc)})
    IN  IF max_fc # R(0)
        THEN [self EXCEPT !.time_res =
                 RTrunc(RDiv(FC_to_teq(max_fc), R(2 * DEFAULT_RESOLUTION_SCALE)))]
        ELSE self

set_time_res(self, component_name) ==
    LET component_states == self.component_dict[component_name].states
        fcs == UNION {Values(component_states[s]) : s \in DOMAIN component_states}
        start == teq_to_FC(RMul(self.time_res, R(DEFAULT_RESOLUTION_SCALE)))
        max_fc == RMax({start} \cup {fc \in fcs : fc # FC_MAX /\ RLt(start, fc)})
    IN  IF max_fc # R(0)
        THEN [self EXCEPT !.time_res =
                 RTrunc(RDiv(FC_to_teq(max_fc), R(DEFAULT_RESOLUTION_SCALE)))]
        ELSE self

\* The loop of add_component over the edges of the component graph.
\* Result: the engine, and whether BadInputError was raised (fail_silently false).
RECURSIVE AddEdgesLoop(_, _, _, _, _)
AddEdgesLoop(self, cgedges, component, mapping, fail_silently) ==
    IF cgedges = <<>> THEN Ok(self)
    ELSE
        LET start_node == Head(cgedges)[1]
            end_node == Head(cgedges)[2]
            edge_key == Head(cgedges)[3]
            name == component.name
            startBad == start_node \notin DOMAIN mapping
            endBad == end_node \notin DOMAIN mapping
            es1 == IF startBad
                   THEN add_error(InvalidComponentNode("node not found in mapping dict",
                                      name, start_node), self.error_set)
                   ELSE self.error_set
            es2 == IF endBad
                   THEN add_error(InvalidComponentNode("node not found in mapping dict",
                                      name, end_node), es1)
                   ELSE es1
            G1 == add_edge(self.plumbing_graph, mapping[start_node], mapping[end_node],
                           name \o <<".">> \o edge_key)
            G2 == [G1 EXCEPT !.body =
                      [n \in (DOMAIN G1.body) \cup {mapping[start_node], mapping[end_node]} |->
                          IF n \in DOMAIN G1.body THEN G1.body[n] ELSE instantiate_node(n)]]
        IN  IF (startBad \/ endBad) /\ ~fail_silently
                THEN Raise(self, "BadInputError", "node not found in mapping dict")
            ELSE IF startBad \/ endBad
                THEN AddEdgesLoop([self EXCEPT !.error_set = es2], Tail(cgedges),
                                  component, mapping, fail_silently)
            ELSE AddEdgesLoop([self EXCEPT !.plumbing_graph = G2], Tail(cgedges),
                              component, mapping, fail_silently)

\* Every node id that occurs; dicts keyed by nodes are iterated in this order
NodeOrder == <<"1", "2", "3", ATM, "4">>
DictKeys(f, order) == LET has(k) == k \in DOMAIN f IN SelectSeq(order, has)

\* The loop of add_component that assigns the given node pressures
RECURSIVE AddPressuresLoop(_, _, _, _)
AddPressuresLoop(self, keys, pressures, fail_silently) ==
    IF keys = <<>> THEN Ok(self)
    ELSE
        LET node_name == Head(keys)
        IN  Let(set_pressure(self, node_name, pressures[node_name][1],
                             pressures[node_name][2]),
                LAMBDA r :
                    IF r.exc = NoExc
                        THEN AddPressuresLoop(r.self, Tail(keys), pressures, fail_silently)
                    ELSE IF r.exc # "BadInputError" THEN r
                    ELSE IF ~fail_silently THEN r
                    ELSE IF r.msg = "node not found in graph" THEN r
                    ELSE AddPressuresLoop(
                             [self EXCEPT !.error_set =
                                 add_error(InvalidNodePressure(r.msg, node_name), @)],
                             Tail(keys), pressures, fail_silently))

\* PlumbingEngine.add_component.  is_initial tells whether `component` is the
\* object kept in initial_components (reset passes that object itself).
add_component(self, component, mapping, state_id, pressures, fail_silently, is_initial) ==
    IF ~fail_silently /\ ~component.valid
        THEN Raise(self, "BadInputError", "component not valid")
    ELSE
        LET name == component.name
            self1 == [self EXCEPT
                        !.component_dict = Put(@, name, component),
                        !.component_keys = AppendNew(@, name),
                        !.shared = IF is_initial THEN @ \cup {name} ELSE @ \ {name},
                        !.mapping = Put(@, name, mapping)]
        IN  Then(AddEdgesLoop(set_time_res(self1, name), component.component_graph,
                              component, mapping, fail_silently),
                 LAMBDA self2 :
            Then(set_component_state(self2, name, state_id),
                 LAMBDA self3 :
            AddPressuresLoop(self3, DictKeys(pressures, NodeOrder), pressures,
                             fail_silently)))

\* The loop of load_graph over component_dict.items()
RECURSIVE LoadLoop(_, _, _, _, _)
LoadLoop(self, names, mapping, initial_pressures, initial_states) ==
    IF names = <<>> THEN Ok(self)
    ELSE
        LET name == Head(names)
            component == self.component_dict[name]
            es1 == IF ~component.valid
                   THEN add_error(InvalidComponentName("component is not valid", name),
                                  self.error_set)
                   ELSE self.error_set
            es2 == IF name \notin DOMAIN self.mapping
                   THEN add_error(InvalidComponentName("not found in mapping dict", name), es1)
                   ELSE es1
            es3 == IF name \notin DOMAIN initial_states
                   THEN add_error(InvalidComponentName("state not found in initial states dict",
                                                       name), es2)
                   ELSE es2
            name_valid == name \in DOMAIN self.mapping /\ name \in DOMAIN initial_states
            self1 == [self EXCEPT !.error_set = es3]
            relevant == {node \in DOMAIN initial_pressures :
                            node \in Values(self.mapping[name])}
            node_pressures == [node \in relevant |-> initial_pressures[node]]
        IN  IF ~name_valid
                THEN LoadLoop(self1, Tail(names), mapping, initial_pressures, initial_states)
            ELSE Then(add_component(self1, component, mapping[name], initial_states[name],
                                    node_pressures, TRUE, FALSE),
                      LAMBDA self2 :
                 LoadLoop(self2, Tail(names), mapping, initial_pressures, initial_states))

\* PlumbingEngine.load_graph.  components is the list of the dict's values in
\* key order; every key is the name of its component.
load_graph(self, components, mapping, initial_pressures, initial_states) ==
    LET names == [i \in 1..Len(components) |-> components[i].name]
        self1 == [self EXCEPT
                    !.component_dict = [n \in Range(names) |->
                        (CHOOSE c \in Range(components) : c.name = n)],
                    !.component_keys = names,
                    !.shared = {},
                    !.mapping = mapping,
                    !.plumbing_graph = EmptyGraph,
                    !.error_set = {}]
    IN  Then(LoadLoop(self1, names, mapping, initial_pressures, initial_states),
             LAMBDA self2 :
                 IF \E node \in DOMAIN initial_pressures :
                        ~InSeq(node, self2.plumbing_graph.nodes)
                     THEN Raise(self2, "BadInputError", "node not found in graph")
                 ELSE Ok(self2))

\* PlumbingEngine.__init__
init(components, mapping, initial_pressures, initial_states) ==
    load_graph([initial_components |-> [n \in {components[i].name : i \in 1..Len(components)}
                                           |-> (CHOOSE c \in Range(components) : c.name = n)],
                initial_mapping |-> mapping,
                initial_pressure |-> initial_pressures,
                initial_state |-> initial_states,
                time_res |-> R(DEFAULT_TIME_RESOLUTION_MICROS),
                time |-> R(0),
                plumbing_graph |-> EmptyGraph,
                error_set |-> {},
                fixed_pressures |-> EmptyDict,
                component_dict |-> EmptyDict,
                component_keys |-> <<>>,
                shared |-> {},
                mapping |-> EmptyDict],
               components, mapping, initial_pressures, initial_states)

\* PlumbingEngine._resolve_errors
\* Variant of resolve_errors that leaves the duplicates of the errors it removes
resolve_errors_KeepDuplicates(self, component_name) ==
    LET first == {error \in self.error_set :
                    IF "component_name" \in DOMAIN error
                            /\ error.component_name = component_name
                        THEN TRUE
                    ELSE IF "node_name" \in DOMAIN error
                        THEN ~InSeq(error.node_name, self.plumbing_graph.nodes)
                    ELSE FALSE}
    IN  [self EXCEPT !.error_set = @ \ first]

resolve_errors(self, component_name) ==
    LET first == {error \in self.error_set :
                    IF "component_name" \in DOMAIN error
                            /\ error.component_name = component_name
                        THEN TRUE
                    ELSE IF "node_name" \in DOMAIN error
                        THEN ~InSeq(error.node_name, self.plumbing_graph.nodes)
                    ELSE FALSE}
        dups == {error \in self.error_set :
                    error.type = "DuplicateError" /\ error.original_error \in first}
    IN  [self EXCEPT !.error_set = @ \ (first \cup dups)]

\* the loop of remove_component that recomputes time_res
RECURSIVE TimeResLoop(_, _)
TimeResLoop(self, names) ==
    IF names = <<>> THEN self
    ELSE TimeResLoop(set_time_res(self, Head(names)), Tail(names))

\* Variant of remove_component that recomputes time_res from the value it has
remove_component_FromCurrent(self, input_component_name) ==
    IF input_component_name \notin DOMAIN self.component_dict
        THEN Raise(self, "BadInputError", "component not found in component dict")
    ELSE
        LET component_name == self.component_dict[input_component_name].name
            G0 == self.plumbing_graph
            G1 == remove_edges_from(G0,
                      {edge \in Range(G0.edges) : Contains(edge[3], component_name)})
            G2 == remove_nodes_from(G1,
                      {node \in Range(G1.nodes) : neighbors(G1, node) = {}})
            self1 == resolve_errors([self EXCEPT !.plumbing_graph = G2],
                                    input_component_name)
            notGone(n) == n # input_component_name
            self2 == [self1 EXCEPT
                        !.mapping = IF component_name \in DOMAIN @
                                    THEN Del(@, component_name) ELSE @,
                        !.component_dict = Del(@, input_component_name),
                        !.component_keys = SelectSeq(@, notGone),
                        !.shared = @ \ {input_component_name}]
        IN  Ok(TimeResLoop(self2, self2.component_keys))

\* PlumbingEngine.remove_component
remove_component(self, input_component_name) ==
    IF input_component_name \notin DOMAIN self.component_dict
        THEN Raise(self, "BadInputError", "component not found in component dict")
    ELSE
        LET component_name == self.component_dict[input_component_name].name
            G0 == self.plumbing_graph
            G1 == remove_edges_from(G0,
                      {edge \in Range(G0.edges) : Contains(edge[3], component_name)})
            G2 == remove_nodes_from(G1,
                      {node \in Range(G1.nodes) : neighbors(G1, node) = {}})
            self1 == resolve_errors([self EXCEPT !.plumbing_graph = G2],
                                    input_component_name)
            notGone(n) == n # input_component_name
            self2 == [self1 EXCEPT
                        !.mapping = IF component_name \in DOMAIN @
                                    THEN Del(@, component_name) ELSE @,
                        !.component_dict = Del(@, input_component_name),
                        !.component_keys = SelectSeq(@, notGone),
                        !.shared = @ \ {input_component_name},
                        !.time_res = R(DEFAULT_TIME_RESOLUTION_MICROS)]
        IN  Ok(TimeResLoop(self2, self2.component_keys))

\* plumbing_graph.edges(keys=True): by source node in node order, by target in
\* the order the targets were first linked, then by insertion
EdgesIter(G) ==
    LET Pos(e) == CHOOSE i \in 1..Len(G.edges) : G.edges[i] = e
        NPos(n) == CHOOSE i \in 1..Len(G.nodes) : G.nodes[i] = n
        TPos(e) == CHOOSE i \in 1..Len(G.edges) :
                       /\ G.edges[i][1] = e[1] /\ G.edges[i][2] = e[2]
                       /\ \A j \in 1..(i - 1) :
                            ~(G.edges[j][1] = e[1] /\ G.edges[j][2] = e[2])
        Before(a, b) == \/ NPos(a[1]) < NPos(b[1])
                        \/ NPos(a[1]) = NPos(b[1]) /\ TPos(a) < TPos(b)
                        \/ NPos(a[1]) = NPos(b[1]) /\ TPos(a) = TPos(b) /\ Pos(a) < Pos(b)
        E == Range(G.edges)
    IN  [i \in 1..Len(G.edges) |->
            CHOOSE e \in E : Cardinality({x \in E : Before(x, e)}) = i - 1]

\* Variant of reverse_orientation that takes a component of any number of edges
reverse_orientation_AnySize(self, component_name) ==
    IF component_name \notin DOMAIN self.component_dict
        THEN Raise(self, "BadInputError", "component not found in component dict")
    ELSE
        LET G == self.plumbing_graph
            mine(e) == Contains(e[3], component_name)
            to_switch == SelectSeq(EdgesIter(G), mine)
            edge1 == to_switch[1]
            edge2 == to_switch[2]
        IN  IF Len(to_switch) < 2 THEN Raise(self, "IndexError", "to_switch")
            ELSE IF edge1 \notin DOMAIN G.FC \/ edge2 \notin DOMAIN G.FC
                THEN Raise(self, "KeyError", "FC")
            ELSE Ok([self EXCEPT !.plumbing_graph.FC =
                        [@ EXCEPT ![edge1] = G.FC[edge2], ![edge2] = G.FC[edge1]]])

\* PlumbingEngine.reverse_orientation
reverse_orientation(self, component_name) ==
    IF component_name \notin DOMAIN self.component_dict
        THEN Raise(self, "BadInputError", "component not found in component dict")
    ELSE IF Len(self.component_dict[component_name].component_graph) # 2
        THEN Raise(self, "InvalidComponentError", "component must only have two edges")
    ELSE
        LET G == self.plumbing_graph
            mine(e) == Contains(e[3], component_name)
            to_switch == SelectSeq(EdgesIter(G), mine)
            edge1 == to_switch[1]
            edge2 == to_switch[2]
        IN  IF Len(to_switch) < 2 THEN Raise(self, "IndexError", "to_switch")
            ELSE IF edge1 \notin DOMAIN G.FC \/ edge2 \notin DOMAIN G.FC
                THEN Raise(self, "KeyError", "FC")
            ELSE Ok([self EXCEPT !.plumbing_graph.FC =
                        [@ EXCEPT ![edge1] = G.FC[edge2], ![edge2] = G.FC[edge1]]])

\* The loops of set_teq.  which_edge is the list of the dict's items in
\* order: <<state_id, <<edge, teq>>, ...>> pairs.
RECURSIVE TeqEdgeLoop(_, _, _, _)
TeqEdgeLoop(self, component_name, state_id, items) ==
    IF items = <<>> THEN Ok(self)
    ELSE
        LET edge == Head(items)[1]
            teq == s_to_micros(Head(items)[2])
            component == self.component_dict[component_name]
            component2 == [component EXCEPT !.states[state_id][edge] = teq_to_FC(teq)]
        IN  IF RLt(teq, R(TEQ_MIN)) THEN Raise(self, "BadInputError", "teq too low")
            ELSE IF edge \notin DOMAIN component.states[state_id]
                THEN Raise(self, "BadInputError", "edge not found in states dict")
            ELSE TeqEdgeLoop(SetComponent(self, component_name, component2),
                             component_name, state_id, Tail(items))

RECURSIVE TeqStateLoop(_, _, _)
TeqStateLoop(self, component_name, which_edge) ==
    IF which_edge = <<>> THEN Ok(self)
    ELSE
        LET state_id == Head(which_edge)[1]
        IN  IF state_id \notin DOMAIN self.component_dict[component_name].states
                THEN Raise(self, "BadInputError", "state not found in states dict")
            ELSE Then(TeqEdgeLoop(self, component_name, state_id, Head(which_edge)[2]),
                      LAMBDA self1 : TeqStateLoop(self1, component_name, Tail(which_edge)))

\* PlumbingEngine.set_teq
set_teq(self, component_name, which_edge) ==
    IF component_name \notin DOMAIN self.component_dict
        THEN Raise(self, "BadInputError", "component not found in component dict")
    ELSE
        LET state(self1) == self1.component_dict[component_name].current_state
        IN  Then(TeqStateLoop(self, component_name, which_edge),
                 LAMBDA self1 :
            Then(IF \E i \in 1..Len(which_edge) : which_edge[i][1] = state(self1)
                 THEN set_component_state(self1, component_name, state(self1))
                 ELSE Ok(self1),
                 LAMBDA self2 :
            Ok(set_time_res(self2, component_name))))

\* PlumbingEngine.current_state() with no arguments
current_state(self) ==
    [name \in {self.component_dict[k].name : k \in DOMAIN self.component_dict} |->
        (CHOOSE c \in Values(self.component_dict) : c.name = name).current_state]

\* PlumbingEngine.current_pressures() with no arguments
current_pressures(self) ==
    [n \in Range(self.plumbing_graph.nodes) |-> get_node_body(self, n).pressure]

\* PlumbingEngine.current_FC(arg) for one component name: [ret, exc]
current_FC(self, arg) ==
    LET G == self.plumbing_graph
        mine == {edge \in Range(G.edges) : StartsWith(edge[3], arg \o <<".">>)}
    IN  IF arg \notin DOMAIN self.component_dict
            THEN [ret |-> EmptyDict, exc |-> "BadInputError"]
        ELSE IF \E edge \in mine : edge \notin DOMAIN G.FC
            THEN [ret |-> EmptyDict, exc |-> "KeyError"]
        ELSE [ret |-> [edge \in mine |-> G.FC[edge]], exc |-> NoExc]

\* The loops of reset.  Dicts keyed by component names given by the caller
\* (initial_state) are iterated in NameOrder.
NameOrder == << <<"c", "1">>, <<"c", "2">>, <<"c", "1", "2">>, <<"p">> >>

RECURSIVE ResetAddLoop(_, _)
ResetAddLoop(self, names) ==
    IF names = <<>> THEN Ok(self)
    ELSE
        LET name == Head(names)
        IN  IF name \in DOMAIN current_state(self) THEN ResetAddLoop(self, Tail(names))
            ELSE IF name \notin DOMAIN self.initial_components
                    \/ name \notin DOMAIN self.initial_mapping
                THEN Raise(self, "KeyError", "initial")
            ELSE Then(add_component(self, self.initial_components[name],
                                    self.initial_mapping[name], self.initial_state[name],
                                    EmptyDict, FALSE, TRUE),
                      LAMBDA self1 : ResetAddLoop(self1, Tail(names)))

RECURSIVE ResetRemoveLoop(_, _)
ResetRemoveLoop(self, names) ==
    IF names = <<>> THEN Ok(self)
    ELSE
        LET name == Head(names)
        IN  IF name \in DOMAIN self.initial_state THEN ResetRemoveLoop(self, Tail(names))
            ELSE Then(remove_component(self, name),
                      LAMBDA self1 : ResetRemoveLoop(self1, Tail(names)))

RECURSIVE ResetStateLoop(_, _)
ResetStateLoop(self, names) ==
    IF names = <<>> THEN Ok(self)
    ELSE
        LET name == Head(names)
        IN  IF name \notin DOMAIN self.initial_state THEN ResetStateLoop(self, Tail(names))
            ELSE Then(set_component_state(self, name, self.initial_state[name]),
                      LAMBDA self1 : ResetStateLoop(self1, Tail(names)))

RECURSIVE ResetPressureLoop(_, _)
ResetPressureLoop(self, nodes) ==
    IF nodes = <<>> THEN Ok(self)
    ELSE
        LET node == Head(nodes)
        IN  Then(IF node \in DOMAIN self.initial_pressure
                 THEN set_pressure(self, node, self.initial_pressure[node][1],
                                   self.initial_pressure[node][2])
                 ELSE set_pressure(self, node, R(0), FALSE),
                 LAMBDA self1 : ResetPressureLoop(self1, Tail(nodes)))

\* PlumbingEngine.reset
reset(self, reset_component) ==
    Then(IF reset_component
         THEN ResetAddLoop(self, DictKeys(self.initial_state, NameOrder))
         ELSE Ok(self),
         LAMBDA self1 :
    Then(IF reset_component
         THEN ResetRemoveLoop(self1, self1.component_keys)
         ELSE Ok(self1),
         LAMBDA self2 :
    Then(ResetStateLoop([self2 EXCEPT !.time = R(0)], self2.component_keys),
         LAMBDA self3 :
    ResetPressureLoop(self3, self3.plumbing_graph.nodes))))

\* The two loops of step over the edges at a node: the contributions to dp.
\* exc is KeyError when an edge that is read carries no FC.
RECURSIVE OutEdgesLoop(_, _, _, _)
OutEdgesLoop(self, es, pressure, dp) ==
    IF es = <<>> THEN [dp |-> dp, exc |-> NoExc]
    ELSE
        LET edge == Head(es)
            npressure == get_node_body(self, edge[2]).pressure
        IN  IF ~RLt(npressure, pressure) THEN OutEdgesLoop(self, Tail(es), pressure, dp)
            ELSE IF edge \notin DOMAIN self.plumbing_graph.FC
                THEN [dp |-> dp, exc |-> "KeyError"]
            ELSE OutEdgesLoop(self, Tail(es), pressure,
                     RSub(dp, RMul(self.plumbing_graph.FC[edge], RSub(pressure, npressure))))

RECURSIVE InEdgesLoop(_, _, _, _)
InEdgesLoop(self, es, pressure, dp) ==
    IF es = <<>> THEN [dp |-> dp, exc |-> NoExc]
    ELSE
        LET edge == Head(es)
            npressure == get_node_body(self, edge[1]).pressure
        IN  IF ~RLt(pressure, npressure) THEN InEdgesLoop(self, Tail(es), pressure, dp)
            ELSE IF edge \notin DOMAIN self.plumbing_graph.FC
                THEN [dp |-> dp, exc |-> "KeyError"]
            ELSE InEdgesLoop(self, Tail(es), pressure,
                     RAdd(dp, RMul(self.plumbing_graph.FC[edge], RSub(npressure, pressure))))

\* The body of step's loop over the nodes, for one node: [p, exc]
NewPressure(self, node, time_res) ==
    LET pressure == get_node_body(self, node).pressure
    IN  Let(OutEdgesLoop(self, out_edges(self.plumbing_graph, node), pressure, R(0)),
            LAMBDA o :
                IF o.exc # NoExc THEN [p |-> pressure, exc |-> o.exc]
                ELSE
        Let(InEdgesLoop(self, in_edges(self.plumbing_graph, node), pressure, o.dp),
            LAMBDA i :
                IF i.exc # NoExc THEN [p |-> pressure, exc |-> i.exc]
                ELSE [p |-> RAdd(pressure, RMul(i.dp, time_res)), exc |-> NoExc]))

\* Variant of Integrated that integrates every node, pinned or not
Integrated_All(self) ==
    self.plumbing_graph.nodes

\* The nodes step integrates: neither fixed nor the atmosphere
Integrated(self) ==
    LET moves(node) == ~(node \in DOMAIN self.fixed_pressures \/ node = ATM)
    IN  SelectSeq(self.plumbing_graph.nodes, moves)

\* The loop of step that writes new_pressures back
RECURSIVE CommitLoop(_, _, _)
CommitLoop(self, nodes, new_pressures) ==
    IF nodes = <<>> THEN Ok(self)
    ELSE
        Then(set_pressure(self, Head(nodes), new_pressures[Head(nodes)], FALSE),
             LAMBDA self1 : CommitLoop(self1, Tail(nodes), new_pressures))

\* Variant of SubStep that writes each node's new pressure before computing the next node
RECURSIVE InPlaceLoop(_, _, _)
InPlaceLoop(self, nodes, time_res) ==
    IF nodes = <<>> THEN Ok(self)
    ELSE
        Let(NewPressure(self, Head(nodes), time_res),
            LAMBDA c :
                IF c.exc # NoExc THEN Raise(self, "KeyError", "FC")
                ELSE Then(set_pressure(self, Head(nodes), c.p, FALSE),
                          LAMBDA self1 : InPlaceLoop(self1, Tail(nodes), time_res)))

SubStep_InPlace(self, time_res) ==
    Then(InPlaceLoop(self, Integrated(self), time_res),
         LAMBDA self1 : Ok([self1 EXCEPT !.time = RAdd(@, time_res)]))

\* One pass of step's while loop with sub-step length time_res
SubStep(self, time_res) ==
    Let([n \in Range(Integrated(self)) |-> NewPressure(self, n, time_res)],
        LAMBDA computed :
            IF \E n \in DOMAIN computed : computed[n].exc # NoExc
                THEN Raise(self, "KeyError", "FC")
            ELSE Then(CommitLoop(self, Integrated(self),
                                 [n \in DOMAIN computed |-> computed[n].p]),
                      LAMBDA self1 : Ok([self1 EXCEPT !.time = RAdd(@, time_res)])))

\* Variant of ClampedRes that never shortens the last sub-step
ClampedRes_Unclamped(self, max_time) ==
    self.time_res

\* The sub-step length: time_res, shortened so that the clock stops at max_time
ClampedRes(self, max_time) ==
    IF RLt(max_time, RAdd(self.time, self.time_res))
    THEN RSub(max_time, self.time)
    ELSE self.time_res

\* step's while loop.  trace lists the engine's pressures after each pass.
RECURSIVE StepLoop(_, _, _)
StepLoop(self, max_time, trace) ==
    IF ~RLt(self.time, max_time) THEN [self |-> self, exc |-> NoExc, msg |-> "", trace |-> trace]
    ELSE IF ~RLt(R(0), self.time_res)
        \* the clock cannot advance: the loop never ends
        THEN [self |-> self, exc |-> "NonTermination", msg |-> "", trace |-> trace]
    ELSE
        Let(SubStep(self, ClampedRes(self, max_time)),
            LAMBDA r :
                IF r.exc # NoExc
                    THEN [self |-> r.self, exc |-> r.exc, msg |-> r.msg, trace |-> trace]
                ELSE StepLoop(r.self, max_time,
                              Append(trace, [dt |-> ClampedRes(self, max_time),
                                             pressures |-> current_pressures(r.self)])))

\* `None` as a numeric argument
None == <<-1, 0>>

\* Variant of step that takes a timestep below MIN_TIME_RES_MICROS
step_AnyTimestep(self, timestep_arg) ==
    LET timestep == IF timestep_arg = None THEN self.time_res ELSE timestep_arg
        self1 == IF RLt(timestep, self.time_res)
                 THEN [self EXCEPT !.time_res = timestep] ELSE self
        fail(sf, exc, msg) == [self |-> sf, exc |-> exc, msg |-> msg, trace |-> <<>>]
    IN  IF Len(self.plumbing_graph.nodes) = 0
            THEN fail(self, "InvalidEngineError", "empty engine")
        ELSE IF ~is_valid(self)
            THEN fail(self, "InvalidEngineError", "invalid engine")
        ELSE IF RTrunc(timestep) # timestep
            THEN fail(self1, "BadInputError", "timestep must be integer")
        ELSE StepLoop(self1, RAdd(self1.time, timestep), <<>>)

\* PlumbingEngine.step: [self, exc, msg, trace]
step(self, timestep_arg) ==
    LET timestep == IF timestep_arg = None THEN self.time_res ELSE timestep_arg
        self1 == IF RLt(timestep, self.time_res)
                 THEN [self EXCEPT !.time_res = timestep] ELSE self
        fail(sf, exc, msg) == [self |-> sf, exc |-> exc, msg |-> msg, trace |-> <<>>]
    IN  IF Len(self.plumbing_graph.nodes) = 0
            THEN fail(self, "InvalidEngineError", "empty engine")
        ELSE IF ~is_valid(self)
            THEN fail(self, "InvalidEngineError", "invalid engine")
        ELSE IF RLt(timestep, R(MIN_TIME_RES_MICROS))
            THEN fail(self, "BadInputError", "timestep too low")
        ELSE IF RTrunc(timestep) # timestep
            THEN fail(self1, "BadInputError", "timestep must be integer")
        ELSE StepLoop(self1, RAdd(self1.time, timestep), <<>>)

\* plumbing_utils.all_converged: over the trailing window of snapshots, every
\* node's pressure range divided by the window's duration is below min_delta
CONVERGENCE_WINDOW == 2

all_converged(all_states, timestep, min_delta) ==
    IF Len(all_states) < CONVERGENCE_WINDOW THEN FALSE
    ELSE
        LET window == SubSeq(all_states, Len(all_states) - CONVERGENCE_WINDOW + 1,
                             Len(all_states))
            elapsed == micros_to_s(RMul(timestep, R(CONVERGENCE_WINDOW - 1)))
            range(n) == LET vals == {window[i][n] : i \in 1..Len(window)}
                            hi == CHOOSE x \in vals : \A y \in vals : RLe(y, x)
                            lo == CHOOSE x \in vals : \A y \in vals : RLe(x, y)
                        IN  RSub(hi, lo)
        \* range / elapsed < min_delta, with elapsed > 0
        IN  \A n \in DOMAIN window[1] : RLt(range(n), RMul(min_delta, elapsed))

\* solve's while loop
RECURSIVE SolveLoop(_, _, _, _, _)
SolveLoop(self, max_time, timestep, min_delta, all_states) ==
    IF all_converged(all_states, timestep, min_delta) \/ ~RLt(self.time, max_time)
        THEN [self |-> self, exc |-> NoExc, msg |-> "", all_states |-> all_states]
    ELSE
        Let(step(self, timestep),
            LAMBDA r :
                IF r.exc # NoExc
                    THEN [self |-> r.self, exc |-> r.exc, msg |-> r.msg,
                          all_states |-> all_states]
                ELSE SolveLoop(r.self, max_time, timestep, min_delta,
                               Append(all_states, current_pressures(r.self))))

\* Variant of solve whose loop goes on until the clock has passed the budget by a timestep
solve_Overrun(self, min_delta, max_time, return_resolution) ==
    LET timestep == IF return_resolution # None THEN return_resolution ELSE self.time_res
    IN  Let(SolveLoop(self, RAdd(RAdd(self.time, s_to_micros(max_time)), timestep),
                      timestep, min_delta, <<>>),
            LAMBDA r :
                IF r.exc = NoExc /\ return_resolution = None /\ r.all_states = <<>>
                    THEN [r EXCEPT !.exc = "IndexError", !.msg = "all_states[-1]"]
                ELSE r)

\* PlumbingEngine.solve: [self, exc, msg, all_states]; the value returned is
\* the last snapshot when return_resolution is None, else all_states
solve(self, min_delta, max_time, return_resolution) ==
    LET timestep == IF return_resolution # None THEN return_resolution ELSE self.time_res
    IN  Let(SolveLoop(self, RAdd(self.time, s_to_micros(max_time)), timestep, min_delta,
                      <<>>),
            LAMBDA r :
                IF r.exc = NoExc /\ return_resolution = None /\ r.all_states = <<>>
                    THEN [r EXCEPT !.exc = "IndexError", !.msg = "all_states[-1]"]
                ELSE r)

(***************************************************************************)
(* Inputs: the components, mappings, pressures and arguments the callers   *)
(* supply (after the two-valve setups of the engine tests)                 *)
(***************************************************************************)
\* n microseconds, in seconds
Micros(n) == Norm(n, MICROS_PER_SEC)

c1 == <<"c", "1">>
c2 == <<"c", "2">>
c12 == <<"c", "1", "2">>
potato == <<"p">>
A1 == <<"A", "1">>
A2 == <<"A", "2">>
Fwd == <<"1", "2", A1>>
Back == <<"2", "1", A2>>

\* create_component of the tests: two nodes, an edge each way, states open/closed
create_component(s1v1, s1v2, s2v1, s2v2, name) ==
    PlumbingComponent(name,
        [s \in {"open", "closed"} |->
            IF s = "open" THEN (Fwd :> s1v1 @@ Back :> s1v2)
            ELSE (Fwd :> s2v1 @@ Back :> s2v2)],
        <<Fwd, Back>>)

Valve1 == create_component(Micros(4), Micros(8), CLOSED, CLOSED, c1)
Valve2 == create_component(Micros(8), Micros(8), CLOSED, CLOSED, c2)
Valve12 == create_component(OPEN, OPEN, CLOSED, CLOSED, c12)
\* a teq below the minimum: the component is not valid
LowTeq == create_component(Micros(1), Micros(8), CLOSED, CLOSED, c2)

\* a valve whose shortest teq is an odd number of microseconds
ThreeMicros == create_component(Micros(3), Micros(8), CLOSED, CLOSED, c12)

\* a manifold: node 2 feeds nodes 1, 3 and 4, and node 1 feeds node 2; one state
Manifold ==
    PlumbingComponent(c12,
        [s \in {"open"} |->
            (Fwd :> Micros(4) @@ Back :> Micros(4)
                @@ <<"2", "3", <<"A", "3">>>> :> Micros(4)
                @@ <<"2", "4", <<"A", "4">>>> :> Micros(4))],
        <<Fwd, Back, <<"2", "3", <<"A", "3">>>>, <<"2", "4", <<"A", "4">>>>>>)

\* a component that takes the name c1 but has one edge and the single state "on"
OneWay == PlumbingComponent(c1, [s \in {"on"} |-> (Fwd :> Micros(8))], <<Fwd>>)

Map12 == ("1" :> "1" @@ "2" :> "2")
Map23 == ("1" :> "2" @@ "2" :> "3")
Map2Atm == ("1" :> "2" @@ "2" :> ATM)
Map3Atm == ("1" :> "3" @@ "2" :> ATM)
Map42 == ("4" :> "1" @@ "2" :> "2")

TwoValves == (c1 :> Map12 @@ c2 :> Map23)
ClosedOpen == (c1 :> "closed" @@ c2 :> "open")
OpenOpen == (c1 :> "open" @@ c2 :> "open")

Input(components, mapping, initial_pressures, initial_states) ==
    [components |-> components, mapping |-> mapping,
     initial_pressures |-> initial_pressures, initial_states |-> initial_states]

\* Engines that construct and are valid
ValidInputs ==
    { Input(<<Valve1, Valve2>>, TwoValves, ("3" :> <<R(128), FALSE>>), ClosedOpen),
      Input(<<Valve1, Valve2>>, TwoValves,
            ("1" :> <<R(128), TRUE>> @@ "3" :> <<R(64), FALSE>>), OpenOpen),
      \* two valves in parallel between the same nodes, one name a prefix of the other
      Input(<<Valve1, Valve12>>, (c1 :> Map12 @@ c12 :> Map12),
            ("1" :> <<R(128), FALSE>>), (c1 :> "open" @@ c12 :> "closed")),
      \* a single valve whose teqs are all open or closed
      Input(<<Valve12>>, (c12 :> Map12), ("1" :> <<R(64), FALSE>>), (c12 :> "open")),
      \* a manifold with more outlets at node 2 than DEFAULT_RESOLUTION_SCALE
      Input(<<Manifold>>, (c12 :> [n \in {"1", "2", "3", "4"} |-> n]),
            ("2" :> <<R(64), FALSE>>), (c12 :> "open")),
      \* a vent to the atmosphere, and a mapping entry for a component that is not supplied
      Input(<<Valve1, Valve2>>, (c1 :> Map12 @@ c2 :> Map2Atm @@ potato :> Map12),
            ("2" :> <<R(128), FALSE>>), OpenOpen) }

\* The empty engine, and inputs with a fault
OtherInputs ==
    { Input(<<>>, EmptyDict, EmptyDict, EmptyDict),
      \* no mapping for c2
      Input(<<Valve1, Valve2>>, (c1 :> Map12), ("1" :> <<R(128), FALSE>>), ClosedOpen),
      \* no initial state for c2, and a pressure for the node that only c2 is mapped to
      Input(<<Valve1, Valve2>>, TwoValves, ("3" :> <<R(128), FALSE>>), (c1 :> "open")),
      \* no initial state for c2
      Input(<<Valve1, Valve2>>, TwoValves, ("1" :> <<R(128), FALSE>>), (c1 :> "open")),
      \* internal node 1 of c1 is not mapped
      Input(<<Valve1, Valve2>>, (c1 :> Map42 @@ c2 :> Map23),
            ("3" :> <<R(128), FALSE>>), ClosedOpen),
      \* internal node 1 of c1 is not mapped, and a pressure for node 2, which c1 is
      \* mapped to and c2, loaded after it, brings into the graph
      Input(<<Valve1, Valve2>>, (c1 :> Map42 @@ c2 :> Map23),
            ("2" :> <<R(128), FALSE>>), ClosedOpen),
      \* a vent to the atmosphere and a pressure for the atmosphere node
      Input(<<Valve1, Valve2>>, (c1 :> Map12 @@ c2 :> Map2Atm),
            ("1" :> <<R(128), FALSE>> @@ ATM :> <<R(5), FALSE>>), OpenOpen),
      \* a negative initial pressure
      Input(<<Valve1, Valve2>>, TwoValves, ("3" :> <<R(-1), FALSE>>), ClosedOpen),
      \* a pressure for a node of no component
      Input(<<Valve1, Valve2>>, TwoValves, ("4" :> <<R(128), FALSE>>), ClosedOpen),
      \* a component that is not valid
      Input(<<Valve1, LowTeq>>, TwoValves, ("3" :> <<R(128), FALSE>>), OpenOpen),
      \* an initial state the component does not have
      Input(<<Valve1, Valve2>>, TwoValves, ("3" :> <<R(128), FALSE>>),
            (c1 :> "potato" @@ c2 :> "open")) }

CtorInputs == ValidInputs \cup OtherInputs

StepArgs == {None, R(0), R(1), R(3), <<3, 2>>}

\* <<min_delta, max_time, return_resolution>>
SolveArgs == { <<<<1, 10>>, R(0), None>>,
               <<<<1, 10>>, Micros(4), None>>,
               <<<<1, 10>>, Micros(4), R(3)>>,
               <<<<1, 10>>, R(0), R(3)>> }

\* <<node_name, pressure, fixed>>
PressureArgs == { <<"1", R(64), FALSE>>, <<"2", R(128), TRUE>>, <<ATM, R(0), TRUE>>,
                  <<ATM, R(5), FALSE>>, <<"2", R(-1), FALSE>>, <<"4", R(1), FALSE>>,
                  <<"1", None, FALSE>> }

Names == {c1, c2, c12, potato}

\* <<component_name, state_id>>
StateArgs == { <<c1, "open">>, <<c1, "closed">>, <<c2, "closed">>, <<c12, "closed">>,
               <<c1, "potato">>, <<potato, "open">> }

\* <<component, mapping, state_id, pressures>>
AddArgs == { <<Valve12, Map3Atm, "open", EmptyDict>>,
             <<Valve12, Map3Atm, "closed", ("3" :> <<R(128), TRUE>>)>>,
             <<Valve12, ("1" :> "3"), "open", EmptyDict>>,
             <<Valve12, Map3Atm, "potato", EmptyDict>>,
             <<LowTeq, Map23, "open", EmptyDict>>,
             <<Valve1, Map23, "open", EmptyDict>>,
             <<OneWay, Map12, "on", EmptyDict>>,
             <<ThreeMicros, Map3Atm, "closed", EmptyDict>> }

\* <<component_name, which_edge>>
TeqArgs == { <<c1, << <<"open", << <<Fwd, Micros(16)>> >> >> >> >>,
             <<c1, << <<"closed", << <<Fwd, Micros(2)>>, <<Back, Micros(1)>> >> >> >> >>,
             <<c2, << <<"open", << <<Back, Micros(4)>> >> >>,
                      <<"potato", << <<Fwd, Micros(4)>> >> >> >> >>,
             <<c12, << <<"open", << <<Fwd, Micros(16)>> >> >>,
                       <<"closed", << <<Back, Micros(16)>> >> >> >> >>,
             <<potato, << <<"open", << <<Fwd, Micros(4)>> >> >> >> >> }

(***************************************************************************)
(* ProcLang: the procedure model, and the handlers of ProcedureTransformer *)
(* for the rules `step` and `procedure`.  A handler takes `data`, the list *)
(* of the already transformed children of its parse tree node.             *)
(***************************************************************************)
Immediate == [type |-> "Immediate"]
WaitFor(t) == [type |-> "WaitFor", t |-> t]
StateChangeAction(component, state) ==
    [type |-> "StateChangeAction", component |-> component, state |-> state]
MiscAction(action_type) == [type |-> "MiscAction", action_type |-> action_type]
Transition(procedure_id, step_id) == [procedure |-> procedure_id, step |-> step_id]
ProcedureStep(step_id, action, conditions, personnel) ==
    [step_id |-> step_id, action |-> action, conditions |-> conditions,
     personnel |-> personnel]
Procedure(procedure_id, steps) == [procedure_id |-> procedure_id, steps |-> steps]

\* isinstance(x, top.Action)
IsAction(x) ==
    /\ "type" \in DOMAIN x
    /\ x.type \in {"StateChangeAction", "MiscAction"}

\* Variant of step that takes every step to have no entry condition of its own
step_info_AlwaysImmediate(data) ==
    IF IsAction(data[3])
    THEN [id |-> data[1], personnel |-> data[2], condition_in |-> Immediate,
          action |-> data[3], conditions_out |-> SubSeq(data, 4, Len(data))]
    ELSE [id |-> data[1], personnel |-> data[2], condition_in |-> Immediate,
          action |-> data[4], conditions_out |-> SubSeq(data, 5, Len(data))]

\* Variant of step that puts each deviation in front of the ones before it
step_info_NewestFirst(data) ==
    LET newestFirst(q) == [i \in 1..Len(q) |-> q[Len(q) + 1 - i]]
    IN  IF IsAction(data[3])
        THEN [id |-> data[1], personnel |-> data[2], condition_in |-> Immediate,
              action |-> data[3],
              conditions_out |-> newestFirst(SubSeq(data, 4, Len(data)))]
        ELSE [id |-> data[1], personnel |-> data[2], condition_in |-> data[3],
              action |-> data[4],
              conditions_out |-> newestFirst(SubSeq(data, 5, Len(data)))]

\* ProcedureTransformer.step: data is <<id, personnel, [condition,] action,
\* deviation, ...>>, a deviation being a <<condition, transition>> pair
step_info(data) ==
    IF IsAction(data[3])
    THEN [id |-> data[1], personnel |-> data[2], condition_in |-> Immediate,
          action |-> data[3], conditions_out |-> SubSeq(data, 4, Len(data))]
    ELSE [id |-> data[1], personnel |-> data[2], condition_in |-> data[3],
          action |-> data[4], conditions_out |-> SubSeq(data, 5, Len(data))]

\* The loop of ProcedureTransformer.procedure over data[-1:0:-1]: the steps
\* from the last to the first, `successor` being the step handled before
RECURSIVE ProcedureLoop(_, _, _, _)
ProcedureLoop(name, infos, successor, steps) ==
    IF infos = <<>> THEN steps
    ELSE
        LET info == infos[Len(infos)]
            conditions == IF successor # <<>>
                          THEN Append(info.conditions_out,
                                      <<successor[1].condition_in,
                                        Transition(name, successor[1].id)>>)
                          ELSE info.conditions_out
            new_step == ProcedureStep(info.id, info.action, conditions, info.personnel)
        IN  ProcedureLoop(name, SubSeq(infos, 1, Len(infos) - 1), <<info>>,
                          <<new_step>> \o steps)

\* ProcedureTransformer.procedure: data is <<name, step_info, ...>>
procedure(data) == Procedure(data[1], ProcedureLoop(data[1], Tail(data), <<>>, <<>>))

(***************************************************************************)
(* PDL: extract_edges on a component entry.  entry.edges is the list of    *)
(* the items <<edge_name, nodes>> of the entry's `edges` dict, in order.   *)
(***************************************************************************)
\* 'fwd', 'back' for the first edge on a pair of nodes, then 'fwd2', 'back2', ...
EdgeKey(direction, count) == IF count = 1 THEN direction ELSE direction \o ToString(count)

\* Variant of the loop below that counts the edges of each direction apart
RECURSIVE ExtractLoop_ByDirection(_, _, _)
ExtractLoop_ByDirection(edges, counts, acc) ==
    IF edges = <<>> THEN [ret |-> acc, exc |-> NoExc]
    ELSE
        LET edge_name == Head(edges)[1]
            nodes == Head(edges)[2]
            pair == nodes
            count == IF pair \in DOMAIN counts THEN counts[pair] + 1 ELSE 1
        IN  IF Len(nodes) # 2 THEN [ret |-> EmptyDict, exc |-> "BadInputError"]
            ELSE ExtractLoop_ByDirection(Tail(edges), Put(counts, pair, count),
                     Put(acc, edge_name,
                         << <<nodes[1], nodes[2], EdgeKey("fwd", count)>>,
                            <<nodes[2], nodes[1], EdgeKey("back", count)>> >>))

\* The loop of extract_edges over the edges of the entry; counts is the
\* number of edges seen so far on each unordered pair of nodes
RECURSIVE ExtractLoop(_, _, _)
ExtractLoop(edges, counts, acc) ==
    IF edges = <<>> THEN [ret |-> acc, exc |-> NoExc]
    ELSE
        LET edge_name == Head(edges)[1]
            nodes == Head(edges)[2]
            pair == Range(nodes)
            count == IF pair \in DOMAIN counts THEN counts[pair] + 1 ELSE 1
        IN  IF Len(nodes) # 2 THEN [ret |-> EmptyDict, exc |-> "BadInputError"]
            ELSE ExtractLoop(Tail(edges), Put(counts, pair, count),
                     Put(acc, edge_name,
                         << <<nodes[1], nodes[2], EdgeKey("fwd", count)>>,
                            <<nodes[2], nodes[1], EdgeKey("back", count)>> >>))

\* Variant of extract_edges that numbers the edges of each direction apart
extract_edges_ByDirection(entry) == ExtractLoop_ByDirection(entry.edges, EmptyDict, EmptyDict)

\* extract_edges(entry): [ret, exc], ret being {edge_name: (forward, backward)}
extract_edges(entry) == ExtractLoop(entry.edges, EmptyDict, EmptyDict)

(***************************************************************************)
(* The state machine: one engine and the calls made on it                  *)
(***************************************************************************)
VARIABLES
    initial_components, initial_mapping, initial_pressure, initial_state,
    time_res, time, plumbing_graph, error_set, fixed_pressures,
    component_dict, component_keys, shared, mapping,
    pre,        \* the engine as it was before the last call
    lastOp,     \* the last call: [op, args, exc, msg]
    trace,      \* the passes of the last step: <<[dt, pressures], ...>>
    ret,        \* what the last step or solve returned
    nops,       \* number of calls made
    built,      \* the engine as the constructor left it
    proc,       \* the ProcLang transformer at work on one procedure node
    pdl         \* a PDL component entry and what extract_edges made of it

engineVars == <<initial_components, initial_mapping, initial_pressure, initial_state,
                time_res, time, plumbing_graph, error_set, fixed_pressures,
                component_dict, component_keys, shared, mapping, pre, lastOp, trace, ret,
                nops, built>>

vars == <<engineVars, proc, pdl>>

\* No ProcLang document and no PDL entry is being handled
NoDocument == <<>>
NoEntry == <<>>

\* Longest sequence of calls explored
MaxOps == 2
\* step and solve are started only while the clock is below MaxClock microseconds
MaxClock == 3

Self ==
    [initial_components |-> initial_components, initial_mapping |-> initial_mapping,
     initial_pressure |-> initial_pressure, initial_state |-> initial_state,
     time_res |-> time_res, time |-> time, plumbing_graph |-> plumbing_graph,
     error_set |-> error_set, fixed_pressures |-> fixed_pressures,
     component_dict |-> component_dict, component_keys |-> component_keys,
     shared |-> shared, mapping |-> mapping]

IsSelf(e) ==
    /\ initial_components = e.initial_components /\ initial_mapping = e.initial_mapping
    /\ initial_pressure = e.initial_pressure /\ initial_state = e.initial_state
    /\ time_res = e.time_res /\ time = e.time /\ plumbing_graph = e.plumbing_graph
    /\ error_set = e.error_set /\ fixed_pressures = e.fixed_pressures
    /\ component_dict = e.component_dict /\ component_keys = e.component_keys
    /\ shared = e.shared /\ mapping = e.mapping

\* The engine exists: the constructor returned
Constructed == lastOp.op # "__init__" \/ lastOp.exc = NoExc

\* The state after the constructor call `PlumbingEngine(in)` with result r
Construct(in, r) ==
    /\ IsSelf(r.self)
    /\ pre = r.self
    /\ lastOp = [op |-> "__init__", args |-> in, exc |-> r.exc, msg |-> r.msg]
    /\ trace = <<>>
    /\ ret = <<>>
    /\ nops = 0
    /\ built = r.self

EngineFrom(inputs) ==
    \E in \in inputs :
        Construct(in, init(in.components, in.mapping, in.initial_pressures,
                           in.initial_states))

InitFrom(inputs) == EngineFrom(inputs) /\ proc = NoDocument /\ pdl = NoEntry

Init == InitFrom(CtorInputs)

\* A call `op(args)` with result r, made while fewer than `bound` calls were made
CallWithin(bound, op, args, r, tr, rv) ==
    /\ Constructed
    /\ nops < bound
    /\ initial_components' = r.self.initial_components
    /\ initial_mapping' = r.self.initial_mapping
    /\ initial_pressure' = r.self.initial_pressure
    /\ initial_state' = r.self.initial_state
    /\ time_res' = r.self.time_res
    /\ time' = r.self.time
    /\ plumbing_graph' = r.self.plumbing_graph
    /\ error_set' = r.self.error_set
    /\ fixed_pressures' = r.self.fixed_pressures
    /\ component_dict' = r.self.component_dict
    /\ component_keys' = r.self.component_keys
    /\ shared' = r.self.shared
    /\ mapping' = r.self.mapping
    /\ pre' = Self
    /\ lastOp' = [op |-> op, args |-> args, exc |-> r.exc, msg |-> r.msg]
    /\ trace' = tr
    /\ ret' = rv
    /\ nops' = nops + 1
    /\ UNCHANGED <<built, proc, pdl>>

\* A call `op(args)` with result r
Call(op, args, r, tr, rv) == CallWithin(MaxOps, op, args, r, tr, rv)

\* A call of step with result r: it returns the pressures it left
StepCall(timestep, r) ==
    Call("step", <<timestep>>, r, r.trace,
         IF r.exc = NoExc THEN current_pressures(r.self) ELSE <<>>)

Step ==
    \E timestep \in StepArgs :
        RLt(time, R(MaxClock)) /\ StepCall(timestep, step(Self, timestep))

\* A call of solve with result r: it returns the last snapshot, or all of them
SolveCall(a, r) ==
    Call("solve", a, r, <<>>,
         IF r.exc # NoExc THEN <<>>
         ELSE IF a[3] = None THEN r.all_states[Len(r.all_states)]
         ELSE r.all_states)

Solve ==
    \E a \in SolveArgs :
        RLt(time, R(MaxClock)) /\ SolveCall(a, solve(Self, a[1], a[2], a[3]))

SetPressure ==
    \E a \in PressureArgs :
        Call("set_pressure", a, set_pressure(Self, a[1], a[2], a[3]), <<>>, <<>>)

SetComponentState ==
    \E a \in StateArgs :
        Call("set_component_state", a, set_component_state(Self, a[1], a[2]), <<>>, <<>>)

SetTeq ==
    \E a \in TeqArgs : Call("set_teq", a, set_teq(Self, a[1], a[2]), <<>>, <<>>)

ReverseOrientation ==
    \E name \in Names :
        Call("reverse_orientation", <<name>>, reverse_orientation(Self, name), <<>>, <<>>)

AddComponent ==
    \E a \in AddArgs :
        Call("add_component", a,
             add_component(Self, a[1], a[2], a[3], a[4], FALSE, FALSE), <<>>, <<>>)

RemoveComponent ==
    \E name \in Names :
        Call("remove_component", <<name>>, remove_component(Self, name), <<>>, <<>>)

Reset ==
    \E reset_component \in BOOLEAN :
        Call("reset", <<reset_component>>, reset(Self, reset_component), <<>>, <<>>)

Next ==
    \/ Step
    \/ Solve
    \/ SetPressure
    \/ SetComponentState
    \/ SetTeq
    \/ ReverseOrientation
    \/ AddComponent
    \/ RemoveComponent
    \/ Reset

Spec == Init /\ [][Next]_vars

(***************************************************************************)
(* The calls above together with load_graph on the engine as it is         *)
(***************************************************************************)
\* Inputs of load_graph: the two valves of test_replace_graph, and a single
\* valve whose teqs are all open or closed
LoadInputs ==
    { Input(<<Valve1, Valve2>>, TwoValves, ("3" :> <<R(128), FALSE>>), ClosedOpen),
      Input(<<Valve12>>, (c12 :> Map12), ("1" :> <<R(64), FALSE>>), (c12 :> "open")) }

LoadGraph ==
    \E in \in LoadInputs :
        Call("load_graph", in,
             load_graph(Self, in.components, in.mapping, in.initial_pressures,
                        in.initial_states), <<>>, <<>>)

NextLoad ==
    \/ Next
    \/ LoadGraph

SpecLoad == Init /\ [][NextLoad]_vars

(***************************************************************************)
(* Longer runs of the calls that take a component out and put it back:     *)
(* set_teq, set_component_state, remove_component and                      *)
(* reset(reset_component=True) on the component c1 of a valid engine       *)
(***************************************************************************)
\* Longest sequence of these calls explored
MaxCycleOps == 5

CycleTeqArgs == {a \in TeqArgs : a[1] = c1}
CycleStateArgs == {a \in StateArgs : a[1] = c1 /\ a[2] \in {"open", "closed"}}

CycleSetTeq ==
    \E a \in CycleTeqArgs :
        CallWithin(MaxCycleOps, "set_teq", a, set_teq(Self, a[1], a[2]), <<>>, <<>>)

CycleSetComponentState ==
    \E a \in CycleStateArgs :
        CallWithin(MaxCycleOps, "set_component_state", a,
                   set_component_state(Self, a[1], a[2]), <<>>, <<>>)

CycleRemoveComponent ==
    CallWithin(MaxCycleOps, "remove_component", <<c1>>, remove_component(Self, c1),
               <<>>, <<>>)

CycleReset ==
    CallWithin(MaxCycleOps, "reset", <<TRUE>>, reset(Self, TRUE), <<>>, <<>>)

NextCycle ==
    \/ CycleSetTeq
    \/ CycleSetComponentState
    \/ CycleRemoveComponent
    \/ CycleReset

SpecCycle == InitFrom(ValidInputs) /\ [][NextCycle]_vars

(***************************************************************************)
(* The ProcLang transformer on one `procedure` node of the parse tree: it  *)
(* handles the step nodes in source order, then the procedure node itself. *)
(* proc.nodes are the step nodes handled so far, as `data` lists.          *)
(***************************************************************************)
\* Most steps in a procedure, and most deviations on a step
MaxSteps == 3
MaxDeviations == 2

ProcedureNames == {"main", "abort"}
EntryConditions == {WaitFor(5000000)}
Actions == {StateChangeAction("injector_valve", "open"), MiscAction("Check pressure")}
Deviations == { <<WaitFor(1000000), Transition("abort", "1")>>,
                <<[type |-> "Less", node |-> "p1", reference |-> 100],
                  Transition("main", "2")>> }

RECURSIVE SeqsUpTo(_, _)
SeqsUpTo(S, n) ==
    IF n = 0 THEN {<<>>}
    ELSE SeqsUpTo(S, n - 1) \cup
         {Append(q, x) : q \in {r \in SeqsUpTo(S, n - 1) : Len(r) = n - 1}, x \in S}

StepIds == <<"1", "2", "3", "4", "5">>

\* The `data` lists of a step node with the given id
StepData(id) ==
    {<<id, "PRIMARY">> \o c \o <<a>> \o d :
        c \in {<<>>} \cup {<<x>> : x \in EntryConditions},
        a \in Actions,
        d \in SeqsUpTo(Deviations, MaxDeviations)}

NoProcedure == <<>>

InitProc ==
    /\ EngineFrom({Input(<<>>, EmptyDict, EmptyDict, EmptyDict)})
    /\ pdl = NoEntry
    /\ \E name \in ProcedureNames :
          proc = [name |-> name, nodes |-> <<>>, infos |-> <<>>, result |-> NoProcedure]

\* The handler of the next step node
TransformStep ==
    /\ proc.result = NoProcedure
    /\ Len(proc.nodes) < MaxSteps
    /\ \E data \in StepData(StepIds[Len(proc.nodes) + 1]) :
          proc' = [proc EXCEPT !.nodes = Append(@, data),
                               !.infos = Append(@, step_info(data))]
    /\ UNCHANGED <<engineVars, pdl>>

\* The handler of the procedure node, once its step+ children are handled
TransformProcedure ==
    /\ proc.result = NoProcedure
    /\ Len(proc.nodes) >= 1
    /\ proc' = [proc EXCEPT !.result = procedure(<<proc.name>> \o proc.infos)]
    /\ UNCHANGED <<engineVars, pdl>>

NextProc ==
    \/ TransformStep
    \/ TransformProcedure

SpecProc == InitProc /\ [][NextProc]_vars

(***************************************************************************)
(* extract_edges applied to one component entry                            *)
(***************************************************************************)
\* Most edges in a component entry
MaxEdges == 3

\* The `nodes` lists an edge may declare: the pairs of the parser tests, a
\* loop, and lists of one and of three nodes
NodeLists == {<<0, 1>>, <<1, 0>>, <<1, 2>>, <<1, 1>>, <<0, 1, 2>>, <<0>>}
EdgeNames == <<"edge1", "edge2", "edge3", "edge4">>

Entries ==
    {[name |-> "example", edges |-> [i \in 1..Len(q) |-> <<EdgeNames[i], q[i]>>]] :
        q \in SeqsUpTo(NodeLists, MaxEdges)}

NotExtracted == <<>>

InitPdl ==
    /\ EngineFrom({Input(<<>>, EmptyDict, EmptyDict, EmptyDict)})
    /\ proc = NoDocument
    /\ \E entry \in Entries : pdl = [entry |-> entry, extracted |-> NotExtracted]

ExtractEdges ==
    /\ pdl.extracted = NotExtracted
    /\ pdl' = [pdl EXCEPT !.extracted = extract_edges(pdl.entry)]
    /\ UNCHANGED <<engineVars, proc>>

NextPdl == ExtractEdges

SpecPdl == InitPdl /\ [][NextPdl]_vars

(***************************************************************************)
(* Properties of step and solve                                            *)
(***************************************************************************)
\* The timestep the last step call ran with
LastTimestep == IF lastOp.args[1] = None THEN pre.time_res ELSE lastOp.args[1]

\* The last call was a step on a valid, non-empty engine with an accepted timestep
AcceptedStep ==
    /\ lastOp.op = "step"
    /\ Len(pre.plumbing_graph.nodes) > 0
    /\ is_valid(pre)
    /\ ~RLt(LastTimestep, R(MIN_TIME_RES_MICROS))
    /\ RIsInt(LastTimestep)

\* The pressures before pass i of the last step
Before(i) == IF i = 1 THEN current_pressures(pre) ELSE trace[i - 1].pressures

C2_StepKeepsPinnedNodes ==
    lastOp.op = "step" =>
        /\ fixed_pressures = pre.fixed_pressures
        /\ \A n \in Range(pre.plumbing_graph.nodes) :
              (n \in DOMAIN pre.fixed_pressures \/ n = ATM) =>
                  /\ InSeq(n, plumbing_graph.nodes)
                  /\ plumbing_graph.body[n] = pre.plumbing_graph.body[n]
                  /\ \A i \in 1..Len(trace) :
                        trace[i].pressures[n] = pre.plumbing_graph.body[n].pressure

\* An edge with flow across it before the last call, into or out of node n
FlowAt(n) ==
    \E edge \in Range(pre.plumbing_graph.edges) :
        /\ n \in {edge[1], edge[2]}
        /\ edge \in DOMAIN pre.plumbing_graph.FC
        /\ RLt(R(0), pre.plumbing_graph.FC[edge])
        /\ pre.plumbing_graph.body[edge[1]].pressure # pre.plumbing_graph.body[edge[2]].pressure

\* C2 witness: a step moved pressures while a pinned node had flow across one of its edges
C2_Witness ==
    /\ lastOp.op = "step" /\ lastOp.exc = NoExc /\ Len(trace) >= 2
    /\ \E n \in DOMAIN pre.fixed_pressures : InSeq(n, pre.plumbing_graph.nodes) /\ FlowAt(n)
    /\ current_pressures(Self) # current_pressures(pre)

\* The net flow into node n over the edges es at pressures P: what comes in
\* over in-edges from higher pressure less what leaves over out-edges to lower
RECURSIVE NetFlow(_, _, _)
NetFlow(P, es, n) ==
    IF es = <<>> THEN R(0)
    ELSE
        LET e == Head(es)
            FC == pre.plumbing_graph.FC
            flow == IF e[2] = n /\ RLt(P[n], P[e[1]])
                        THEN RMul(FC[e], RSub(P[e[1]], P[n]))
                    ELSE IF e[1] = n /\ RLt(P[e[2]], P[n])
                        THEN RSub(R(0), RMul(FC[e], RSub(P[n], P[e[2]])))
                    ELSE R(0)
        IN  RAdd(flow, NetFlow(P, Tail(es), n))

\* The explicit-Euler value of node n after a pass of length dt from pressures P
Euler(P, n, dt) == RAdd(P[n], RMul(dt, NetFlow(P, pre.plumbing_graph.edges, n)))

\* C3: every pass of step gives each node that is neither pinned nor the
\* atmosphere the explicit-Euler value computed from the pressures before the pass
C3_SynchronousEuler ==
    lastOp.op = "step" =>
        \A i \in 1..Len(trace) :
            \A n \in Range(pre.plumbing_graph.nodes) :
                ~(n \in DOMAIN pre.fixed_pressures \/ n = ATM) =>
                    trace[i].pressures[n] = Euler(Before(i), n, trace[i].dt)

\* C3 witness: a pass moved two neighbouring nodes, each of which a later
\* node's value would depend on were the writes made in place
C3_Witness ==
    /\ lastOp.op = "step" /\ lastOp.exc = NoExc /\ Len(trace) >= 1
    /\ \E edge \in Range(pre.plumbing_graph.edges) :
          /\ edge[1] # edge[2]
          /\ \A n \in {edge[1], edge[2]} :
                /\ ~(n \in DOMAIN pre.fixed_pressures \/ n = ATM)
                /\ trace[1].pressures[n] # current_pressures(pre)[n]

\* The last call was a step or solve on an engine that is empty or has errors
OnUnusableEngine ==
    /\ lastOp.op \in {"step", "solve"}
    /\ (Len(pre.plumbing_graph.nodes) = 0 \/ ~is_valid(pre))

\* C4 (as stated): step and solve on an empty or invalid engine raise
\* InvalidEngineError and leave time, time_res, pressures and errors as they were
C4_UnusableEngineRejected ==
    OnUnusableEngine =>
        /\ lastOp.exc = "InvalidEngineError"
        /\ time = pre.time /\ time_res = pre.time_res
        /\ plumbing_graph.body = pre.plumbing_graph.body
        /\ error_set = pre.error_set

(***************************************************************************)
(* Properties of reset(reset_component=True)                               *)
(***************************************************************************)
\* The last call was reset(reset_component=True)
FullReset == lastOp.op = "reset" /\ lastOp.args[1] = TRUE

\* What reset is to leave in a node: its initial pressure and flag, or 0 and not fixed
InitialBody(n) ==
    IF n \in DOMAIN initial_pressure
    THEN [pressure |-> initial_pressure[n][1], fixed |-> initial_pressure[n][2]]
    ELSE [pressure |-> R(0), fixed |-> FALSE]

\* time is 0, the states are the initial ones and every node is at its initial pressure
Restored ==
    /\ lastOp.exc = NoExc
    /\ time = R(0)
    /\ current_state(Self) = initial_state
    /\ \A n \in Range(plumbing_graph.nodes) : plumbing_graph.body[n] = InitialBody(n)

\* C5 (as stated, for engines built without an error): reset(True) after any
\* calls returns with time 0, every component in its initial state and every
\* node at its initial pressure and fixed flag
C5_ResetRestores == (FullReset /\ is_valid(built)) => Restored

\* C6 (as stated, for engines built without an error): after reset(True) the
\* component names and the edges are those the constructor left
C6_ResetRestoresTopology ==
    (FullReset /\ is_valid(built) /\ lastOp.exc = NoExc) =>
        /\ DOMAIN component_dict = DOMAIN built.component_dict
        /\ Range(plumbing_graph.edges) = Range(built.plumbing_graph.edges)

(***************************************************************************)
(* Properties of set_component_state                                       *)
(***************************************************************************)
\* The component and the state the last set_component_state call named
ArgComponent == lastOp.args[1]
ArgState == lastOp.args[2]

\* The edge of the engine graph that stands for internal edge e of component c
GraphEdge(e, c) == <<e.mapping[c][e.edge[1]], e.mapping[c][e.edge[2]], c \o <<".">> \o e.edge[3]>>

\* The last call set a state that component c has, c being a component of the
\* engine with every internal node mapped
SetKnownState ==
    /\ lastOp.op = "set_component_state"
    /\ ArgComponent \in DOMAIN pre.component_dict
    /\ ArgComponent \in DOMAIN pre.mapping
    /\ ArgState \in DOMAIN pre.component_dict[ArgComponent].states
    /\ \A e \in Range(pre.component_dict[ArgComponent].component_graph) :
          {e[1], e[2]} \subseteq DOMAIN pre.mapping[ArgComponent]

\* The FC map that state s of component c stands for, keyed by graph edges
StateFC(c, s) ==
    LET comp == component_dict[c]
        internal == Range(comp.component_graph)
        at(e) == GraphEdge([mapping |-> mapping, edge |-> e], c)
    IN  [g \in {at(e) : e \in internal} |->
            comp.states[s][CHOOSE e \in internal : at(e) = g]]

\* C7 (as stated, for engines built and still without an error): after
\* set_component_state(c, s) on a fully mapped component, current_FC(c) is
\* exactly the FC map of state s over c's edges and c is in state s
C7_StateSetsExactlyItsFC ==
    (SetKnownState /\ is_valid(built) /\ is_valid(pre)) =>
        /\ lastOp.exc = NoExc
        /\ current_FC(Self, ArgComponent).exc = NoExc
        /\ current_FC(Self, ArgComponent).ret = StateFC(ArgComponent, ArgState)
        /\ component_dict[ArgComponent].current_state = ArgState

\* The edges that are not component c's
NotOf(c, edges) == {edge \in edges : ~StartsWith(edge[3], c \o <<".">>)}

\* C8: set_component_state(c, s) leaves the FC of every edge that is not c's,
\* the state of every other component, every node's pressure, time and time_res
\* as they were, whether it returns or raises
C8_StateChangeIsLocal ==
    lastOp.op = "set_component_state" =>
        /\ plumbing_graph.nodes = pre.plumbing_graph.nodes
        /\ plumbing_graph.edges = pre.plumbing_graph.edges
        /\ \A edge \in NotOf(ArgComponent, Range(pre.plumbing_graph.edges)) :
              /\ edge \in DOMAIN plumbing_graph.FC <=> edge \in DOMAIN pre.plumbing_graph.FC
              /\ edge \in DOMAIN plumbing_graph.FC =>
                    plumbing_graph.FC[edge] = pre.plumbing_graph.FC[edge]
        /\ DOMAIN component_dict = DOMAIN pre.component_dict
        /\ \A d \in DOMAIN pre.component_dict \ {ArgComponent} :
              component_dict[d] = pre.component_dict[d]
        /\ plumbing_graph.body = pre.plumbing_graph.body
        /\ fixed_pressures = pre.fixed_pressures
        /\ time = pre.time
        /\ time_res = pre.time_res

\* C8 witness: the call changed the FC of an edge of c that runs parallel to
\* another component's edge
C8_Witness ==
    /\ SetKnownState /\ lastOp.exc = NoExc
    /\ \E mine \in Range(plumbing_graph.edges) \ NotOf(ArgComponent, Range(plumbing_graph.edges)) :
          /\ mine \in DOMAIN pre.plumbing_graph.FC
          /\ plumbing_graph.FC[mine] # pre.plumbing_graph.FC[mine]
          /\ \E other \in NotOf(ArgComponent, Range(plumbing_graph.edges)) :
                /\ other[1] = mine[1] /\ other[2] = mine[2]
                /\ other \in DOMAIN plumbing_graph.FC
                /\ plumbing_graph.FC[other] # plumbing_graph.FC[mine]

\* C9 (as stated): set_component_state with a name that is not a component of
\* the engine, or a state the component lacks, raises BadInputError and leaves
\* every component's state and every FC as they were
C9_UnknownNameOrStateRejected ==
    (/\ lastOp.op = "set_component_state"
     /\ \/ ArgComponent \notin DOMAIN pre.component_dict
        \/ ArgState \notin DOMAIN pre.component_dict[ArgComponent].states) =>
        /\ lastOp.exc = "BadInputError"
        /\ current_state(Self) = current_state(pre)
        /\ plumbing_graph.FC = pre.plumbing_graph.FC

(***************************************************************************)
(* Properties of remove_component                                          *)
(***************************************************************************)
\* Error `error` names component c, itself or as the duplicate of one that does
NamesComponent(error, c) ==
    \/ "component_name" \in DOMAIN error /\ error.component_name = c
    \/ /\ error.type = "DuplicateError"
       /\ "component_name" \in DOMAIN error.original_error
       /\ error.original_error.component_name = c

\* C10: after remove_component(c) returns, no edge key starts with "c.", c is in
\* neither the component dict nor the mapping, and no error names c
C10_RemovedComponentIsGone ==
    (lastOp.op = "remove_component" /\ lastOp.exc = NoExc) =>
        /\ NotOf(lastOp.args[1], Range(plumbing_graph.edges)) = Range(plumbing_graph.edges)
        /\ lastOp.args[1] \notin DOMAIN component_dict
        /\ lastOp.args[1] \notin DOMAIN mapping
        /\ \A error \in error_set : ~NamesComponent(error, lastOp.args[1])

\* C10 witness: the removed component had edges, a mapping, an error naming it
\* and the duplicate of one
C10_Witness ==
    /\ lastOp.op = "remove_component" /\ lastOp.exc = NoExc
    /\ NotOf(lastOp.args[1], Range(pre.plumbing_graph.edges)) # Range(pre.plumbing_graph.edges)
    /\ lastOp.args[1] \in DOMAIN pre.mapping
    /\ \E error \in pre.error_set :
          error.type = "DuplicateError" /\ NamesComponent(error, lastOp.args[1])

\* The edges of component d: those whose key begins with "d."
EdgesOf(d, edges) == edges \ NotOf(d, edges)

\* C11 (as stated): remove_component(c) takes only c's edges; every edge of
\* every other component is still in the graph afterwards, with the same FC
C11_RemoveTakesOnlyItsEdges ==
    (lastOp.op = "remove_component" /\ lastOp.exc = NoExc) =>
        \A d \in DOMAIN pre.component_dict \ {lastOp.args[1]} :
            \A edge \in EdgesOf(d, Range(pre.plumbing_graph.edges)) :
                /\ edge \in Range(plumbing_graph.edges)
                /\ edge \in DOMAIN pre.plumbing_graph.FC =>
                      /\ edge \in DOMAIN plumbing_graph.FC
                      /\ plumbing_graph.FC[edge] = pre.plumbing_graph.FC[edge]

(***************************************************************************)
(* Properties of construction and load_graph                               *)
(***************************************************************************)
\* The inputs of the constructor call, while no other call has been made
CtorArgs == lastOp.args

\* Component c of the inputs `in` has one of the faults that load_graph records:
\* it fails validation, has no mapping entry or has no initial state
Faulty(c, in) ==
    \/ ~c.valid
    \/ c.name \notin DOMAIN in.mapping
    \/ c.name \notin DOMAIN in.initial_states

\* C12 (as stated): with a faulty component among the inputs the constructor
\* returns an engine, the fault is in error_set and is_valid() is false
C12_FaultyComponentIsRecorded ==
    lastOp.op = "__init__" =>
        \A c \in Range(CtorArgs.components) :
            Faulty(c, CtorArgs) =>
                /\ lastOp.exc = NoExc
                /\ \E error \in error_set : NamesComponent(error, c.name)
                /\ ~is_valid(Self)

\* The three faults of the constructor's inputs `in` in component c: its key
\* is not in the mapping, its mapping leaves one of its internal nodes out
\* (naming a node it does not have instead), or it has no initial state
KeyNotMapped(c, in) == c.name \notin DOMAIN in.mapping
InternalNodeNotMapped(c, in) ==
    /\ c.name \in DOMAIN in.mapping
    /\ \E e \in Range(c.component_graph) : ~({e[1], e[2]} \subseteq DOMAIN in.mapping[c.name])
    /\ \E n \in DOMAIN in.mapping[c.name] :
          \A e \in Range(c.component_graph) : n \notin {e[1], e[2]}
NoInitialState(c, in) == c.name \notin DOMAIN in.initial_states

Misnamed(c, in) ==
    KeyNotMapped(c, in) \/ InternalNodeNotMapped(c, in) \/ NoInitialState(c, in)

NodesOfInputs(in) ==
    UNION { UNION { {in.mapping[c.name][e[1]], in.mapping[c.name][e[2]]} :
                      e \in {x \in Range(c.component_graph) :
                                {x[1], x[2]} \subseteq DOMAIN in.mapping[c.name]} } :
              c \in {x \in Range(in.components) :
                        x.name \in DOMAIN in.mapping /\ x.name \in DOMAIN in.initial_states} }

\* C14 (as stated): construction raises exactly when some initial pressure is
\* for a node that no component brings into the graph, and then BadInputError;
\* every other malformed input is accumulated in error_set
C14_RaisesExactlyForUnknownNode ==
    lastOp.op = "__init__" =>
        /\ lastOp.exc # NoExc <=>
              \E node \in DOMAIN CtorArgs.initial_pressures : node \notin NodesOfInputs(CtorArgs)
        /\ lastOp.exc \in {NoExc, "BadInputError"}

(***************************************************************************)
(* Properties of the components kept for reset                             *)
(***************************************************************************)
\* The last call was a reset(reset_component=True) that put component c back
Reinserted(c) ==
    /\ FullReset /\ lastOp.exc = NoExc
    /\ c \notin DOMAIN pre.component_dict
    /\ c \in DOMAIN component_dict

\* C15 (as stated): whatever set_teq, set_component_state, remove_component and
\* reset(True) calls were made, the components kept for reset have the per-state
\* FC maps of the components supplied at construction, and so has a component
\* that reset(True) has just put back
C15_OriginalsUntouched ==
    \A c \in DOMAIN built.initial_components :
        /\ c \in DOMAIN initial_components
        /\ initial_components[c].states = built.initial_components[c].states
        /\ Reinserted(c) => component_dict[c].states = built.initial_components[c].states

(***************************************************************************)
(* Properties of load_graph on an engine in use                            *)
(***************************************************************************)
\* The engine's graph, pressures, fixed pressures, component states, errors and
\* time_res are those of engine e
SameEngine(e) ==
    /\ plumbing_graph = e.plumbing_graph
    /\ fixed_pressures = e.fixed_pressures
    /\ current_state(Self) = current_state(e)
    /\ error_set = e.error_set
    /\ time_res = e.time_res

\* reset() would leave the pressures and the component states that it leaves in engine e
SameAfterReset(mine, theirs) ==
    /\ mine.exc = theirs.exc
    /\ current_pressures(mine.self) = current_pressures(theirs.self)
    /\ mine.self.fixed_pressures = theirs.self.fixed_pressures
    /\ current_state(mine.self) = current_state(theirs.self)

\* The engine is as the one that result `fresh` of a constructor call holds,
\* and so is what a reset() makes of it
AsConstructed(fresh) ==
    /\ fresh.exc = NoExc
    /\ SameEngine(fresh.self)
    /\ SameAfterReset(reset(Self, FALSE), reset(fresh.self, FALSE))

\* C16 (as stated): after load_graph(components, mapping, pressures, states)
\* returns, the engine is as PlumbingEngine(components, mapping, pressures,
\* states) would be, and a following reset() restores the inputs of that call
C16_LoadGraphIsConstruction ==
    (lastOp.op = "load_graph" /\ lastOp.exc = NoExc) =>
        AsConstructed(init(lastOp.args.components, lastOp.args.mapping,
                           lastOp.args.initial_pressures, lastOp.args.initial_states))

(***************************************************************************)
(* Properties of the adaptive time resolution                              *)
(***************************************************************************)
\* The FCs of component c, over all its states, that are neither 0 nor FC_MAX
PartlyOpenFCs(c) ==
    {fc \in UNION {Values(c.states[s]) : s \in DOMAIN c.states} :
        fc # FC_MAX /\ RLt(R(0), fc)}

RMin(a, b) == IF RLt(b, a) THEN b ELSE a

\* min(before, FC_to_teq(max_fc) / DEFAULT_RESOLUTION_SCALE), max_fc being the
\* largest FC of c below FC_MAX; `before` when c has only closed and open edges
TimeResRule(c, before) ==
    IF PartlyOpenFCs(c) = {} THEN before
    ELSE RMin(before, RDiv(FC_to_teq(RMax(PartlyOpenFCs(c))),
                           R(DEFAULT_RESOLUTION_SCALE)))

\* The last call was an add_component that returned
Added == lastOp.op = "add_component" /\ lastOp.exc = NoExc

\* C17 (as stated): after add_component(c, ...) time_res is
\* min(time_res_before, FC_to_teq(max_fc) / DEFAULT_RESOLUTION_SCALE)
C17_TimeResIsTheRule ==
    Added => time_res = TimeResRule(lastOp.args[1], pre.time_res)

\* C17 (amended): after add_component(c, ...) time_res is that value truncated
\* to an integer, so a component with only closed and open edges leaves an
\* integer time_res as it was, and an engine constructed empty or from such
\* components has time_res DEFAULT_TIME_RESOLUTION_MICROS
C17_TimeResIsTheRuleTruncated ==
    /\ Added =>
          /\ time_res = RTrunc(TimeResRule(lastOp.args[1], pre.time_res))
          /\ (PartlyOpenFCs(lastOp.args[1]) = {} /\ RIsInt(pre.time_res)) =>
                time_res = pre.time_res
    /\ (/\ lastOp.op = "__init__" /\ lastOp.exc = NoExc
        /\ \A c \in Range(CtorArgs.components) : PartlyOpenFCs(c) = {}) =>
          time_res = R(DEFAULT_TIME_RESOLUTION_MICROS)

\* C17 witness: the added component's shortest teq is shorter than twice
\* time_res and is not a multiple of the scale, so that the truncation shows
C17_Witness ==
    /\ Added
    /\ PartlyOpenFCs(lastOp.args[1]) # {}
    /\ RLt(time_res, pre.time_res)
    /\ time_res # TimeResRule(lastOp.args[1], pre.time_res)

(***************************************************************************)
(* Properties of solve                                                     *)
(***************************************************************************)
\* The arguments of the last solve call, its timestep and the end of its budget
SolveMaxTime == lastOp.args[2]
SolveTimestep == IF lastOp.args[3] # None THEN lastOp.args[3] ELSE pre.time_res
SolveBudgetEnd == RAdd(pre.time, s_to_micros(SolveMaxTime))

\* C18: solve ends, and when it returns the last step it made had started before
\* start_time + s_to_micros(max_time): the clock is below that instant plus timestep
C18_SolveHonoursBudget ==
    lastOp.op = "solve" =>
        /\ lastOp.exc # "NonTermination"
        /\ lastOp.exc = NoExc =>
              /\ RLt(time, RAdd(SolveBudgetEnd, SolveTimestep))
              /\ time # pre.time => RLt(RSub(time, SolveTimestep), SolveBudgetEnd)

\* C18 witness: solve made two steps or more and its last step, started within
\* the budget, took the clock past the end of the budget
C18_Witness ==
    /\ lastOp.op = "solve" /\ lastOp.exc = NoExc
    /\ ~RLt(time, RAdd(pre.time, RAdd(SolveTimestep, SolveTimestep)))
    /\ RLt(SolveBudgetEnd, time)

\* The last call was a solve on a valid, non-empty engine, with a budget of zero
\* or more and a return_resolution that step accepts
SolveOnUsableEngine ==
    /\ lastOp.op = "solve"
    /\ Len(pre.plumbing_graph.nodes) > 0 /\ is_valid(pre)
    /\ ~RLt(SolveMaxTime, R(0))
    /\ ~RLt(SolveTimestep, R(MIN_TIME_RES_MICROS)) /\ RIsInt(SolveTimestep)

\* C19 (as stated): such a solve returns a result: the pressures the engine
\* holds at return when return_resolution is None, else one snapshot per step,
\* so that their number times return_resolution is the advance of the clock
C19_SolveReturnsResult ==
    SolveOnUsableEngine =>
        /\ lastOp.exc = NoExc
        /\ lastOp.args[3] = None => ret = current_pressures(Self)
        /\ lastOp.args[3] # None =>
              RMul(R(Len(ret)), lastOp.args[3]) = RSub(time, pre.time)

(***************************************************************************)
(* Properties of reverse_orientation                                       *)
(***************************************************************************)
\* The last call was reverse_orientation(c) for a component c of the engine
\* that has two edges, both in the graph with an FC
ReversedTwoEdged ==
    /\ lastOp.op = "reverse_orientation"
    /\ lastOp.args[1] \in DOMAIN pre.component_dict
    /\ Len(pre.component_dict[lastOp.args[1]].component_graph) = 2
    /\ Cardinality(EdgesOf(lastOp.args[1], Range(pre.plumbing_graph.edges))) = 2
    /\ EdgesOf(lastOp.args[1], Range(pre.plumbing_graph.edges))
          \subseteq DOMAIN pre.plumbing_graph.FC

\* C20 (as stated): reverse_orientation(c) exchanges the FC of c's two graph
\* edges and leaves the FC of every edge of another component as it was
C20_ReverseSwapsOwnEdges ==
    ReversedTwoEdged =>
        /\ lastOp.exc = NoExc
        /\ \A a, b \in EdgesOf(lastOp.args[1], Range(pre.plumbing_graph.edges)) :
              a # b => /\ a \in DOMAIN plumbing_graph.FC
                       /\ plumbing_graph.FC[a] = pre.plumbing_graph.FC[b]
        /\ \A edge \in NotOf(lastOp.args[1], Range(pre.plumbing_graph.edges)) :
              edge \in DOMAIN pre.plumbing_graph.FC =>
                  /\ edge \in DOMAIN plumbing_graph.FC
                  /\ plumbing_graph.FC[edge] = pre.plumbing_graph.FC[edge]

(***************************************************************************)
(* Properties of set_teq                                                   *)
(***************************************************************************)
\* The component the last set_teq call named, and its {state: {edge: teq}}
\* items as <<state, edge, teq>> triples
TeqComponent == lastOp.args[1]
TeqItems ==
    UNION {{<<lastOp.args[2][i][1], lastOp.args[2][i][2][j][1], lastOp.args[2][i][2][j][2]>> :
               j \in 1..Len(lastOp.args[2][i][2])} : i \in 1..Len(lastOp.args[2])}

\* The last call was a set_teq that returned
SetTeqReturned == lastOp.op = "set_teq" /\ lastOp.exc = NoExc

\* The FC that item it of the call stands for
TeqFC(it) == teq_to_FC(s_to_micros(it[3]))

\* Internal edge e of component c has both end nodes in c's mapping
FullyMapped(c, e) == c \in DOMAIN mapping /\ {e[1], e[2]} \subseteq DOMAIN mapping[c]

\* C21 (as stated): after a set_teq(c, {s: {e: t}}) that returned, state s of c
\* holds teq_to_FC(s_to_micros(t)) at edge e; when s is c's current state the
\* graph edge of e carries that FC, otherwise no FC of the graph changed; the
\* FC of the edges of other components is as before
C21_SetTeqWritesItsEdge ==
    SetTeqReturned =>
        /\ \A it \in TeqItems :
              /\ component_dict[TeqComponent].states[it[1]][it[2]] = TeqFC(it)
              /\ (it[1] = pre.component_dict[TeqComponent].current_state
                        /\ FullyMapped(TeqComponent, it[2])) =>
                    LET g == GraphEdge([mapping |-> mapping, edge |-> it[2]], TeqComponent)
                    IN  g \in DOMAIN plumbing_graph.FC /\ plumbing_graph.FC[g] = TeqFC(it)
        /\ (\A it \in TeqItems : it[1] # pre.component_dict[TeqComponent].current_state)
              => plumbing_graph.FC = pre.plumbing_graph.FC
        /\ \A edge \in NotOf(TeqComponent, Range(pre.plumbing_graph.edges)) :
              /\ edge \in DOMAIN plumbing_graph.FC <=> edge \in DOMAIN pre.plumbing_graph.FC
              /\ edge \in DOMAIN plumbing_graph.FC =>
                    plumbing_graph.FC[edge] = pre.plumbing_graph.FC[edge]

\* The same for a component whose edges are still in the graph: set_teq writes
\* the FC on every edge of its component that the graph has
SetTeqWritesPresentEdge ==
    SetTeqReturned =>
        /\ \A it \in TeqItems :
              /\ component_dict[TeqComponent].states[it[1]][it[2]] = TeqFC(it)
              /\ (it[1] = pre.component_dict[TeqComponent].current_state
                        /\ FullyMapped(TeqComponent, it[2])) =>
                    LET g == GraphEdge([mapping |-> mapping, edge |-> it[2]], TeqComponent)
                    IN  g \in Range(plumbing_graph.edges) =>
                          g \in DOMAIN plumbing_graph.FC /\ plumbing_graph.FC[g] = TeqFC(it)
        /\ (\A it \in TeqItems : it[1] # pre.component_dict[TeqComponent].current_state)
              => plumbing_graph.FC = pre.plumbing_graph.FC
        /\ \A edge \in NotOf(TeqComponent, Range(pre.plumbing_graph.edges)) :
              /\ edge \in DOMAIN plumbing_graph.FC <=> edge \in DOMAIN pre.plumbing_graph.FC
              /\ edge \in DOMAIN plumbing_graph.FC =>
                    plumbing_graph.FC[edge] = pre.plumbing_graph.FC[edge]

(***************************************************************************)
(* Properties of the ProcLang transformer                                  *)
(***************************************************************************)
\* What the source says about step node `data`: its entry condition, its
\* action and its deviations
NodeHasCondition(data) == ~IsAction(data[3])
NodeCondition(data) == IF NodeHasCondition(data) THEN data[3] ELSE Immediate
NodeAction(data) == IF NodeHasCondition(data) THEN data[4] ELSE data[3]
NodeDeviations(data) ==
    SubSeq(data, IF NodeHasCondition(data) THEN 5 ELSE 4, Len(data))

\* The procedure node has been transformed
Parsed == proc # NoDocument /\ proc.result # NoProcedure

\* The transition from the step before node `data` to the step of `data`
NaturalSuccessor(data) == <<NodeCondition(data), Transition(proc.name, data[1])>>

\* C22: a procedure of n steps without deviations is parsed into the n steps
\* in source order; step i < n has exactly one outbound transition, to step
\* i+1 of the same procedure under the entry condition of step i+1 (Immediate
\* when it has none), and step n has none
C22_StepsChainToTheirSuccessor ==
    (Parsed /\ \A i \in 1..Len(proc.nodes) : NodeDeviations(proc.nodes[i]) = <<>>) =>
        /\ proc.result.procedure_id = proc.name
        /\ Len(proc.result.steps) = Len(proc.nodes)
        /\ \A i \in 1..Len(proc.nodes) :
              /\ proc.result.steps[i].step_id = proc.nodes[i][1]
              /\ proc.result.steps[i].personnel = proc.nodes[i][2]
              /\ proc.result.steps[i].action = NodeAction(proc.nodes[i])
              /\ i < Len(proc.nodes) =>
                    proc.result.steps[i].conditions =
                        <<NaturalSuccessor(proc.nodes[i + 1])>>
              /\ i = Len(proc.nodes) => proc.result.steps[i].conditions = <<>>

\* C22 witness: three steps without deviations, the second with an entry
\* condition and the third without one
C22_Witness ==
    /\ Parsed
    /\ Len(proc.nodes) = 3
    /\ \A i \in 1..3 : NodeDeviations(proc.nodes[i]) = <<>>
    /\ NodeHasCondition(proc.nodes[2])
    /\ ~NodeHasCondition(proc.nodes[3])
    /\ Len(proc.result.steps[1].conditions) = 1
    /\ proc.result.steps[1].conditions[1][1] # Immediate
    /\ proc.result.steps[2].conditions[1][1] = Immediate

\* C23: the out-conditions of every step are its deviations in source order,
\* followed, when the step has a successor, by the transition to the
\* successor as the last entry: k + 1 entries for k deviations, k for the
\* last step; the list of a step depends on no deviation of another step
C23_DeviationsThenSuccessor ==
    Parsed =>
        /\ Len(proc.result.steps) = Len(proc.nodes)
        /\ \A i \in 1..Len(proc.nodes) :
              proc.result.steps[i].conditions =
                  NodeDeviations(proc.nodes[i]) \o
                      (IF i < Len(proc.nodes)
                       THEN <<NaturalSuccessor(proc.nodes[i + 1])>>
                       ELSE <<>>)

\* C23 witness: a step with two different deviations and a successor that
\* has one deviation, and a last step with two deviations
C23_Witness ==
    /\ Parsed
    /\ Len(proc.nodes) = 3
    /\ Len(NodeDeviations(proc.nodes[1])) = 2
    /\ NodeDeviations(proc.nodes[1])[1] # NodeDeviations(proc.nodes[1])[2]
    /\ Len(NodeDeviations(proc.nodes[2])) = 1
    /\ Len(NodeDeviations(proc.nodes[3])) = 2
    /\ Len(proc.result.steps[1].conditions) = 3
    /\ Len(proc.result.steps[2].conditions) = 2
    /\ Len(proc.result.steps[3].conditions) = 2

(***************************************************************************)
(* Properties of extract_edges                                             *)
(***************************************************************************)
Extracted == pdl # NoEntry /\ pdl.extracted # NotExtracted

\* The declared edges of the entry, and the number of them up to the i-th
\* that join the same two nodes as the i-th
Declared == pdl.entry.edges
SamePairUpTo(i) ==
    Cardinality({j \in 1..i : Range(Declared[j][2]) = Range(Declared[i][2])})

\* The directed edges of the result
Triples ==
    UNION {{pdl.extracted.ret[n][1], pdl.extracted.ret[n][2]} :
              n \in DOMAIN pdl.extracted.ret}

\* C24: when every declared edge has two nodes [a, b], extract_edges maps it
\* to (a, b, fwd-key) and (b, a, back-key), the keys being 'fwd' and 'back' for
\* the first edge on an unordered pair of nodes and 'fwd<k>', 'back<k>' for the
\* k-th, and all the directed edges of the entry are distinct; when an edge
\* has another number of nodes it raises BadInputError
C24_ExtractEdgesKeys ==
    Extracted =>
        IF \A i \in 1..Len(Declared) : Len(Declared[i][2]) = 2
        THEN /\ pdl.extracted.exc = NoExc
             /\ DOMAIN pdl.extracted.ret = {Declared[i][1] : i \in 1..Len(Declared)}
             /\ \A i \in 1..Len(Declared) :
                   LET a == Declared[i][2][1]
                       b == Declared[i][2][2]
                       k == SamePairUpTo(i)
                   IN  pdl.extracted.ret[Declared[i][1]] =
                          << <<a, b, IF k = 1 THEN "fwd" ELSE "fwd" \o ToString(k)>>,
                             <<b, a, IF k = 1 THEN "back" ELSE "back" \o ToString(k)>> >>
             /\ Cardinality(Triples) = 2 * Len(Declared)
        ELSE pdl.extracted.exc = "BadInputError"

\* C24 witness: the entry of test_extract_repeated_edges, [0, 1] then [1, 0],
\* came out with the keys 'fwd', 'back' and 'fwd2', 'back2'
C24_Witness ==
    /\ Extracted
    /\ Len(Declared) = 2
    /\ Declared[1][2] = <<0, 1>> /\ Declared[2][2] = <<1, 0>>
    /\ pdl.extracted.ret = ("edge1" :> << <<0, 1, "fwd">>, <<1, 0, "back">> >> @@
                            "edge2" :> << <<1, 0, "fwd2">>, <<0, 1, "back2">> >>)

(***************************************************************************)
(* Invariants of the engine                                                *)
(***************************************************************************)
\* C25: whenever the atmosphere node is in the graph its pressure is 0, and a
\* set_pressure call that names it with another pressure raises BadInputError
C25_AtmIsZero ==
    /\ InSeq(ATM, plumbing_graph.nodes) =>
          /\ ATM \in DOMAIN plumbing_graph.body
          /\ plumbing_graph.body[ATM].pressure = R(0)
    /\ (lastOp.op = "set_pressure" /\ lastOp.args[1] = ATM /\ lastOp.args[2] # R(0)) =>
          lastOp.exc = "BadInputError"

\* C25 witness: a non-zero pressure was asked for the atmosphere node of an
\* engine that has it, next to a node under pressure
C25_Witness ==
    /\ lastOp.op = "set_pressure" /\ lastOp.args[1] = ATM /\ lastOp.args[2] = R(5)
    /\ InSeq(ATM, plumbing_graph.nodes)
    /\ \E e \in Range(plumbing_graph.edges) :
          /\ e[2] = ATM
          /\ plumbing_graph.body[e[1]].pressure # R(0)

\* C26 (as stated): fixed_pressures has a key for a node exactly when the node
\* is in the graph and its body is fixed
C26_FixedPressuresIsExact ==
    \A n \in (DOMAIN fixed_pressures) \cup Range(plumbing_graph.nodes) :
        n \in DOMAIN fixed_pressures <=>
            /\ InSeq(n, plumbing_graph.nodes)
            /\ n \in DOMAIN plumbing_graph.body
            /\ plumbing_graph.body[n].fixed

\* C27 (as stated): every edge of the graph of a constructed engine carries an
\* FC, and it is not negative, so current_FC() with no arguments does not fail
C27_EveryEdgeHasFC ==
    Constructed =>
        \A edge \in Range(plumbing_graph.edges) :
            /\ edge \in DOMAIN plumbing_graph.FC
            /\ RLe(R(0), plumbing_graph.FC[edge])

\* Graph edge g stands for internal edge e of the live component c under
\* c's mapping
StandsFor(g, c, e) ==
    /\ c \in DOMAIN mapping
    /\ {e[1], e[2]} \subseteq DOMAIN mapping[c]
    /\ g = <<mapping[c][e[1]], mapping[c][e[2]], component_dict[c].name \o <<".">> \o e[3]>>

\* C28 (as stated): every edge of the graph of a constructed engine stands for
\* an internal edge of a live component, both of whose end nodes are in the
\* component's mapping, and every node of the graph has a body
C28_EdgesBelongToLiveComponents ==
    Constructed =>
        /\ \A g \in Range(plumbing_graph.edges) :
              \E c \in DOMAIN component_dict :
                  \E e \in Range(component_dict[c].component_graph) : StandsFor(g, c, e)
        /\ \A n \in Range(plumbing_graph.nodes) : n \in DOMAIN plumbing_graph.body

\* C29: time_res is at least MIN_TIME_RES_MICROS, hence positive, in every
\* state
C29_TimeResAtLeastMin ==
    /\ RLe(R(MIN_TIME_RES_MICROS), time_res)
    /\ RLt(R(0), time_res)

\* C29 witness: a call brought time_res down to MIN_TIME_RES_MICROS itself
C29_Witness ==
    /\ lastOp.op \in {"add_component", "set_teq", "step", "load_graph"}
    /\ time_res = R(MIN_TIME_RES_MICROS)
    /\ RLt(time_res, pre.time_res)

(***************************************************************************)
(* Properties of the error set                                             *)
(***************************************************************************)
\* The last call neither removed component d nor loaded a graph
KeepsComponent(d) ==
    /\ Constructed
    /\ lastOp.op # "__init__"
    /\ lastOp.op # "load_graph"
    /\ ~(lastOp.op = "remove_component" /\ lastOp.args[1] = d)
    /\ d \in DOMAIN pre.component_dict
    /\ d \in DOMAIN component_dict

\* C30 (as stated): an error that names component d stays in the error set,
\* and the engine stays invalid, across every call that neither removes d nor
\* loads a graph; remove_component(c) for another component c does not clear it
C30_ErrorsStayUntilResolved ==
    \A d \in Names :
        KeepsComponent(d) =>
            \A error \in pre.error_set :
                NamesComponent(error, d) => (error \in error_set /\ ~is_valid(Self))

(***************************************************************************)
(* Nodes and time_res after remove_component                               *)
(***************************************************************************)
\* The edges that remove_component(c) leaves of the graph it found: every edge
\* that its test on the key (c occurs in the key) does not select
LeftBy(c) == {edge \in Range(pre.plumbing_graph.edges) : ~Contains(edge[3], c)}

\* Node n is an end of one of the edges in `edges`
Incident(n, edges) == \E edge \in edges : edge[1] = n \/ edge[2] = n

\* C31: remove_component(c) deletes a node if and only if no edge is incident
\* to it once c's edges are gone; a node with an incoming edge of another
\* component stays with its pressure, and that edge stays with it
C31_NodeGoesIffNoIncidentEdge ==
    (lastOp.op = "remove_component" /\ lastOp.exc = NoExc) =>
        /\ \A n \in Range(pre.plumbing_graph.nodes) :
              /\ InSeq(n, plumbing_graph.nodes) <=> Incident(n, LeftBy(lastOp.args[1]))
              /\ InSeq(n, plumbing_graph.nodes) =>
                    get_node_body(Self, n) = get_node_body(pre, n)
        /\ LeftBy(lastOp.args[1]) \subseteq Range(plumbing_graph.edges)

\* time_res after the add_component rule (with its truncation) is applied, from
\* the value t, to each of the components `names` of the engine before the call
RECURSIVE RuleOver(_, _)
RuleOver(names, t) ==
    IF names = <<>> THEN t
    ELSE RuleOver(Tail(names),
                  RTrunc(TimeResRule(pre.component_dict[Head(names)], t)))

\* The names of the components that the last call, remove_component(c), left
Remaining ==
    LET stays(n) == n # lastOp.args[1] IN SelectSeq(pre.component_keys, stays)

\* C32: after remove_component(c), time_res is what the add_component rule gives
\* from DEFAULT_TIME_RESOLUTION_MICROS over the remaining components, whatever
\* it was before
C32_TimeResFromScratch ==
    (lastOp.op = "remove_component" /\ lastOp.exc = NoExc) =>
        time_res = RuleOver(Remaining, R(DEFAULT_TIME_RESOLUTION_MICROS))

\* C32 witness: a component with a finite teq remains and time_res grows, the
\* shrink caused by the removed component or by a step being discarded
C32_Witness ==
    /\ lastOp.op = "remove_component" /\ lastOp.exc = NoExc
    /\ \E n \in Range(Remaining) : PartlyOpenFCs(pre.component_dict[n]) # {}
    /\ RLt(pre.time_res, time_res)
    /\ time_res # R(DEFAULT_TIME_RESOLUTION_MICROS)

(***************************************************************************)
(* Construction with a component that fails validation                     *)
(***************************************************************************)
\* The names of the constructor's components that load_graph's checks pass:
\* valid, with a mapping entry and an initial state
Loadable ==
    LET passes(n) == ~Faulty(pre.component_dict[n], CtorArgs)
    IN  SelectSeq(pre.component_keys, passes)

\* C33: after construction a component that fails validation has an error
\* recorded, has none of its edges in the graph and has not influenced time_res
C33_InvalidComponentIsNotAdded ==
    (lastOp.op = "__init__" /\ lastOp.exc = NoExc) =>
        \A c \in Range(CtorArgs.components) :
            ~c.valid =>
                /\ \E error \in error_set : NamesComponent(error, c.name)
                /\ EdgesOf(c.name, Range(plumbing_graph.edges)) = {}
                /\ time_res = RuleOver(Loadable, R(DEFAULT_TIME_RESOLUTION_MICROS))

(***************************************************************************)
(* Calls that are refused                                                  *)
(***************************************************************************)
\* The last call raised one of the errors of the exceptions module
Refused == lastOp.exc \in {"BadInputError", "InvalidComponentError"}

\* The last call was reverse_orientation on a name that is not in the component
\* dict, or on a component whose component graph has not exactly two edges
ReverseNotApplicable ==
    /\ lastOp.op = "reverse_orientation"
    /\ \/ lastOp.args[1] \notin DOMAIN pre.component_dict
       \/ Len(pre.component_dict[lastOp.args[1]].component_graph) # 2

\* C34: reverse_orientation on an unknown component, or on one that has not
\* exactly two edges, raises and leaves every edge FC and component state as it was
C34_ReverseRefused ==
    ReverseNotApplicable =>
        /\ Refused
        /\ plumbing_graph.FC = pre.plumbing_graph.FC
        /\ current_state(Self) = current_state(pre)
        /\ component_dict = pre.component_dict

\* C34 witness: the call was made on a one-edge component whose edge is in the
\* graph with an FC, next to the edges of a two-way valve
C34_Witness ==
    /\ ReverseNotApplicable
    /\ lastOp.args[1] \in DOMAIN pre.component_dict
    /\ lastOp.exc = "InvalidComponentError"
    /\ \E edge \in DOMAIN plumbing_graph.FC : StartsWith(edge[3], lastOp.args[1] \o <<".">>)
    /\ Cardinality(DOMAIN plumbing_graph.FC) > 1

\* C35: a set_teq call that raises BadInputError leaves every per-state FC map
\* of the component, every edge FC of the graph and time_res as they were
C35_RejectedSetTeqChangesNothing ==
    (lastOp.op = "set_teq" /\ lastOp.exc = "BadInputError") =>
        /\ DOMAIN component_dict = DOMAIN pre.component_dict
        /\ \A c \in DOMAIN component_dict :
              component_dict[c].states = pre.component_dict[c].states
        /\ plumbing_graph.FC = pre.plumbing_graph.FC
        /\ time_res = pre.time_res

\* C36: an add_component call (fail_silently false) that raises BadInputError
\* leaves the component dict, the mapping, time_res and the graph with its
\* nodes, edges and pressures as they were
C36_RejectedAddChangesNothing ==
    (lastOp.op = "add_component" /\ lastOp.exc = "BadInputError") =>
        /\ component_dict = pre.component_dict
        /\ mapping = pre.mapping
        /\ time_res = pre.time_res
        /\ plumbing_graph = pre.plumbing_graph

\* C37: a step call rejected with BadInputError for its timestep leaves
\* time_res, the clock and all pressures as they were
C37_RejectedStepChangesNothing ==
    (lastOp.op = "step" /\ lastOp.exc = "BadInputError") =>
        /\ time_res = pre.time_res
        /\ time = pre.time
        /\ current_pressures(Self) = current_pressures(pre)

(***************************************************************************)
(* The commit of a sub-step                                                *)
(***************************************************************************)
\* The reasons for which step itself refuses a timestep
TimestepRefusals == {"timestep too low", "timestep must be integer"}

\* The last call, a step, was stopped by a BadInputError that set_pressure
\* raised while the new pressures were written back
FailedInCommit ==
    /\ lastOp.op = "step"
    /\ lastOp.exc = "BadInputError"
    /\ lastOp.msg \notin TimestepRefusals

\* C38: step never fails while it writes the new pressures of a sub-step, so
\* no state has some nodes at their new pressure, the others at their old one
\* and the clock not advanced
C38_CommitIsAllOrNothing == ~FailedInCommit

(***************************************************************************)
(* Termination of step                                                     *)
(***************************************************************************)
\* C39: step terminates on every valid, non-empty engine with an accepted
\* timestep: each pass of its loop advances the clock by a positive amount,
\* whatever add_component, set_teq, remove_component and load_graph made of
\* time_res
C39_StepTerminates ==
    lastOp.op = "step" =>
        /\ lastOp.exc # "NonTermination"
        /\ \A i \in 1..Len(trace) : RLt(R(0), trace[i].dt)
        /\ AcceptedStep => RLt(R(0), pre.time_res) /\ RLt(R(0), time_res)

\* C39 witness: an accepted step of several passes on an engine whose time_res
\* an earlier call had changed from what the constructor left
C39_Witness ==
    /\ AcceptedStep
    /\ Len(trace) >= 2
    /\ pre.time_res # built.time_res

(***************************************************************************)
(* Conservation of pressure by step                                        *)
(***************************************************************************)
\* What a pass of length dt moves along edge e from its source to its target
\* at pressures P: nothing unless the source is at the higher pressure
Transfer(P, e, dt) ==
    IF e \in DOMAIN pre.plumbing_graph.FC /\ RLt(P[e[2]], P[e[1]])
    THEN RMul(dt, RMul(pre.plumbing_graph.FC[e], RSub(P[e[1]], P[e[2]])))
    ELSE R(0)

\* What node n gains over the edges es: the transfers into it less those out of it
RECURSIVE Gain(_, _, _, _)
Gain(P, es, n, dt) ==
    IF es = <<>> THEN R(0)
    ELSE
        LET e == Head(es)
            in == IF e[2] = n THEN Transfer(P, e, dt) ELSE R(0)
            out == IF e[1] = n THEN Transfer(P, e, dt) ELSE R(0)
        IN  RAdd(RSub(in, out), Gain(P, Tail(es), n, dt))

\* The sum of the pressures P over the nodes
RECURSIVE Total(_, _)
Total(P, nodes) ==
    IF nodes = <<>> THEN R(0) ELSE RAdd(P[Head(nodes)], Total(P, Tail(nodes)))

\* Before the last call no node of the graph was pinned or the atmosphere
NoPinnedNode ==
    \A n \in Range(pre.plumbing_graph.nodes) :
        /\ n \notin DOMAIN pre.fixed_pressures
        /\ ~pre.plumbing_graph.body[n].fixed
        /\ n # ATM

\* Every pass of the last step changed each integrated node by what the edges
\* at it transfer, the same amount leaving the source as reaching the target
MovedAlongEdges ==
    \A i \in 1..Len(trace) :
        \A n \in Range(pre.plumbing_graph.nodes) :
            ~(n \in DOMAIN pre.fixed_pressures \/ n = ATM) =>
                trace[i].pressures[n] =
                    RAdd(Before(i)[n],
                         Gain(Before(i), pre.plumbing_graph.edges, n, trace[i].dt))

\* The sum of all node pressures is what it was before the last call
SameTotal ==
    Total(current_pressures(Self), plumbing_graph.nodes)
        = Total(current_pressures(pre), pre.plumbing_graph.nodes)

\* C40: a sub-step only moves pressure along edges, what leaves the source of an
\* edge reaches its target and an edge that is closed or runs uphill moves
\* nothing; with no pinned node and no atmosphere node the sum of all node
\* pressures is the same before and after step
C40_StepConservesPressure ==
    lastOp.op = "step" =>
        /\ MovedAlongEdges
        /\ NoPinnedNode => SameTotal

\* The same of the step calls that return
ReturnedStepConservesPressure ==
    (lastOp.op = "step" /\ lastOp.exc = NoExc) =>
        /\ MovedAlongEdges
        /\ NoPinnedNode => SameTotal

====
